---- MODULE Spec2Model ----
(***************************************************************************)
(* Library overrides of source/blender/blenkernel/intern/lib_override.c.   *)
(*                                                                         *)
(* The registry (Main) is one record, bmain; every function of the file    *)
(* is an operator from a registry to a registry, and every action applies  *)
(* one public entry point as a whole.  The specifications share the        *)
(* operators and differ in the registry they start from:                   *)
(*   SpecStore          the override record store (init, copy, clear,      *)
(*                      properties),                                       *)
(*   SpecStoreMutators  the same store without its pure lookup,            *)
(*   SpecOps            the operations of one override property,           *)
(*   SpecGraph          the hierarchy functions (tagging, creation,        *)
(*                      resync),                                           *)
(*   SpecTasks          the task pool of main_operations_create,           *)
(*   SpecEngine         operations_create, update and store_start of one   *)
(*                      override,                                          *)
(*   SpecGroup          the group taggers and the deletion of a hierarchy, *)
(*   SpecValidate       operands_validate,                                 *)
(*   SpecReset          the reset of an override and of its hierarchy,     *)
(*   SpecClosure        the linked group tagger with its pass over the     *)
(*                      dependencies run call by call,                     *)
(*   SpecLink           init on the registry of SpecStore, the registry    *)
(*                      before each call kept,                             *)
(*   SpecResync         resync on a saved hierarchy with duplicated        *)
(*                      overrides and missing references,                  *)
(*   SpecRollback       create_from_tag on a mesh with a shape key and a   *)
(*                      material.                                          *)
(***************************************************************************)
EXTENDS Integers, Sequences, FiniteSets, TLC

VARIABLES bmain,      \* the registry: Main and every ID in it
          bmain_old,  \* the registry as it was when the last hierarchy call started
          call        \* the last call made: function, arguments, return value

vars == <<bmain, bmain_old, call>>

(***************************************************************************)
(* Bounds.                                                                 *)
(***************************************************************************)
MaxIDs == 18       \* ID slots of a registry
MaxProps == 2      \* properties one override may hold
MaxOps == 2        \* operations one property may hold
MaxUs == 2         \* cap of a use count
MaxCalls == 1      \* hierarchy calls of one behaviour

NULL == 0
IDs == 1..MaxIDs

Paths == {"a", "b"}

\* The RNA properties of an ID, by their paths: "a" is a number that may be
\* overridden, "b" the ID pointer of an ID that holds one plain pointer,
\* which may be overridden, and "c" a number that may not be overridden.
RNAPaths == <<"a", "b", "c">>
ValuePaths == {"a", "c"}

(***************************************************************************)
(* ID tags and flags (DNA_ID.h), by name.                                  *)
(***************************************************************************)
LIB_TAG_DOIT == "DOIT"
LIB_TAG_MISSING == "MISSING"
LIB_TAG_OVERRIDE_LIBRARY_REFOK == "REFOK"
LIB_EMBEDDED_DATA_LIB_OVERRIDE == "EMBEDDED_OVERRIDE"
IDOVERRIDE_LIBRARY_FLAG_IDPOINTER_MATCH_REFERENCE == "MATCH_REFERENCE"

IDOVERRIDE_LIBRARY_OP_NOOP == "NOOP"
IDOVERRIDE_LIBRARY_OP_REPLACE == "REPLACE"

IDOVERRIDE_LIBRARY_TAG_UNUSED == "UNUSED"
IDOVERRIDE_LIBRARY_RUNTIME_TAG_NEEDS_RELOAD == "NEEDS_RELOAD"
LIB_TAG_OVERRIDE_LIBRARY_AUTOREFRESH == "AUTOREFRESH"

(***************************************************************************)
(* IDOverrideLibrary.  An ID without override data has the record NoLink   *)
(* (has = FALSE stands for the NULL pointer).  runtime holds the lazily    *)
(* built GHash rna_path -> property: has_ghash is FALSE while the pointer  *)
(* rna_path_to_override_properties is NULL, ghash lists the entries with   *)
(* the most recently inserted one first.  A property is identified by ptr, *)
(* its address.  runtime.tag is the tag of the runtime data (empty while   *)
(* there is none), storage the ID IDOverrideLibrary.storage points to.     *)
(***************************************************************************)
NoRuntime == [has_ghash |-> FALSE, ghash |-> <<>>, tag |-> {}]

NoLink == [has |-> FALSE, reference |-> NULL, properties |-> <<>>,
           runtime |-> NoRuntime, storage |-> NULL]

Min2(a, b) == IF a < b THEN a ELSE b

\* Body applied to the value of e: a LET whose definition is evaluated once.
With(e, Body(_)) == CHOOSE r \in {Body(v) : v \in {e}} : TRUE

SeqRange(s) == {s[i] : i \in DOMAIN s}

RemoveAt(s, i) == SubSeq(s, 1, i - 1) \o SubSeq(s, i + 1, Len(s))

\* Every property address held by a collection or by a path index.
UsedPtrs(bm) ==
  UNION {{bm.override_library[e].properties[i].ptr :
            i \in DOMAIN bm.override_library[e].properties}
         \cup {bm.override_library[e].runtime.ghash[i][2] :
            i \in DOMAIN bm.override_library[e].runtime.ghash} : e \in IDs}

\* MEM_callocN / MEM_dupallocN: the k-th new address, distinct from every
\* address in use or still referenced.
RECURSIVE FreshPtr(_, _)
FreshPtr(used, k) ==
  LET p == CHOOSE n \in 1..(Cardinality(used) + 1) :
             n \notin used /\ \A m \in 1..(n - 1) : m \in used
  IN IF k = 1 THEN p ELSE FreshPtr(used \cup {p}, k - 1)

(***************************************************************************)
(* ID macros of DNA_ID.h.                                                  *)
(***************************************************************************)
ID_IS_LINKED(bm, id) == bm.lib[id] # NULL

ID_IS_OVERRIDE_LIBRARY_REAL(bm, id) ==
  bm.override_library[id].has /\ bm.override_library[id].reference # NULL

ID_IS_OVERRIDE_LIBRARY_VIRTUAL(bm, id) ==
  LIB_EMBEDDED_DATA_LIB_OVERRIDE \in bm.flag[id]

ID_IS_OVERRIDE_LIBRARY(bm, id) ==
  ID_IS_OVERRIDE_LIBRARY_REAL(bm, id) \/ ID_IS_OVERRIDE_LIBRARY_VIRTUAL(bm, id)

ID_IS_OVERRIDE_LIBRARY_TEMPLATE(bm, id) ==
  bm.override_library[id].has /\ bm.override_library[id].reference = NULL

ID_MISSING(bm, id) == LIB_TAG_MISSING \in bm.tag[id]

(***************************************************************************)
(* Use counts (BKE_lib_id.h).                                              *)
(***************************************************************************)
id_us_plus(bm, id) ==
  IF id = NULL THEN bm
  ELSE [bm EXCEPT !.us[id] = Min2(@ + 1, MaxUs)]

id_us_min(bm, id) ==
  IF id = NULL THEN bm
  ELSE [bm EXCEPT !.us[id] = IF @ > 0 THEN @ - 1 ELSE 0]

(***************************************************************************)
(* Copies of properties and operations.                                    *)
(***************************************************************************)
\* An operation is copied by value, its two name strings duplicated.
lib_override_library_property_operation_copy(opop_src) == opop_src

\* BLI_duplicatelist(&op_dst->operations, ...) and the copy of each operation.
lib_override_library_property_copy(op_src, ptr) ==
  [rna_path |-> op_src.rna_path,
   ptr |-> ptr,
   tag |-> op_src.tag,
   operations |-> [i \in DOMAIN op_src.operations |->
                     lib_override_library_property_operation_copy(op_src.operations[i])]]

\* BLI_duplicatelist(dst, src) followed by the copy of each property: the
\* destination list is REPLACED by fresh copies of the source's elements.
DuplicateProperties(bm, src_properties) ==
  [i \in DOMAIN src_properties |->
     lib_override_library_property_copy(src_properties[i], FreshPtr(UsedPtrs(bm), i))]

(***************************************************************************)
(* BKE_lib_override_library_clear                                          *)
(***************************************************************************)
BKE_lib_override_library_clear(bm, id, do_id_user) ==
  LET ovr == bm.override_library[id]
      bm1 == [bm EXCEPT !.override_library[id].runtime.ghash = <<>>,
                        !.override_library[id].properties = <<>>]
  IN IF do_id_user THEN id_us_min(bm1, ovr.reference) ELSE bm1

(***************************************************************************)
(* BKE_lib_override_library_free                                           *)
(***************************************************************************)
BKE_lib_override_library_free(bm, id, do_id_user) ==
  [BKE_lib_override_library_clear(bm, id, do_id_user)
     EXCEPT !.override_library[id] = NoLink]

(***************************************************************************)
(* BKE_lib_override_library_init, the branch that generates a new empty    *)
(* override (also what BKE_lib_override_library_copy gets from its call    *)
(* init(dst_id, NULL)).                                                    *)
(***************************************************************************)
lib_override_library_init_empty(bm, local_id, reference_id) ==
  [id_us_plus([bm EXCEPT !.override_library[local_id] =
                           [NoLink EXCEPT !.has = TRUE, !.reference = reference_id]],
              reference_id)
     EXCEPT !.tag[local_id] = @ \ {LIB_TAG_OVERRIDE_LIBRARY_REFOK}]

(***************************************************************************)
(* BKE_lib_override_library_copy                                           *)
(***************************************************************************)
lib_override_library_copy_reference_mutant(bm, src_id) == src_id

\* The reference the destination gets: the source's reference, or the source
\* itself when the source is a template.
lib_override_library_copy_reference(bm, src_id) ==
  IF bm.override_library[src_id].reference # NULL
  THEN bm.override_library[src_id].reference
  ELSE src_id

\* The copy proper, on a destination that holds empty override data.
lib_override_library_copy_data(bm1, dst_id, src_id, do_full_copy) ==
  With(lib_override_library_copy_reference(bm1, src_id), LAMBDA ref :
  With(id_us_plus([bm1 EXCEPT !.override_library[dst_id].reference = ref], ref), LAMBDA bm2 :
    [bm2 EXCEPT
       !.override_library[dst_id].properties =
          IF do_full_copy
          THEN DuplicateProperties(bm2, bm2.override_library[src_id].properties)
          ELSE @,
       !.tag[dst_id] = @ \ {LIB_TAG_OVERRIDE_LIBRARY_REFOK}]))

BKE_lib_override_library_copy(bm, dst_id, src_id, do_full_copy) ==
  LET dst_has == bm.override_library[dst_id].has
      src_has == bm.override_library[src_id].has
  IN IF dst_has /\ ~src_has THEN BKE_lib_override_library_free(bm, dst_id, TRUE)
     ELSE IF ~dst_has /\ ~src_has THEN bm
     ELSE lib_override_library_copy_data(
            IF dst_has THEN BKE_lib_override_library_clear(bm, dst_id, TRUE)
            ELSE lib_override_library_init_empty(bm, dst_id, NULL),
            dst_id, src_id, do_full_copy)

(***************************************************************************)
(* BKE_lib_override_library_init                                           *)
(***************************************************************************)
\* The loop that does not leave reference_id.
lib_override_library_init_ancestor_mutant(bm, ancestor_id) == ancestor_id

\* The loop over the reference's ancestors: the first ID of the chain that
\* has no override data or whose override data has no reference.
RECURSIVE lib_override_library_init_ancestor(_, _)
lib_override_library_init_ancestor(bm, ancestor_id) ==
  IF ancestor_id # NULL /\ bm.override_library[ancestor_id].has
     /\ bm.override_library[ancestor_id].reference # NULL
  THEN lib_override_library_init_ancestor(bm, bm.override_library[ancestor_id].reference)
  ELSE ancestor_id

\* The replacement that keeps the user the copy has given the template.
lib_override_library_init_reference_mutant(bm1, local_id, reference_id) ==
  id_us_plus([bm1 EXCEPT !.override_library[local_id].reference = reference_id],
             reference_id)

\* The reference of the copy of the template is replaced by reference_id.
lib_override_library_init_reference(bm1, local_id, reference_id) ==
  IF bm1.override_library[local_id].reference # reference_id
  THEN id_us_plus(
         [id_us_min(bm1, bm1.override_library[local_id].reference)
            EXCEPT !.override_library[local_id].reference = reference_id],
         reference_id)
  ELSE bm1

BKE_lib_override_library_init(bm, local_id, reference_id) ==
  With(lib_override_library_init_ancestor(bm, reference_id), LAMBDA ancestor_id :
    IF ancestor_id # NULL /\ bm.override_library[ancestor_id].has
    THEN \* Original ID has a template, use it.
         lib_override_library_init_reference(
           BKE_lib_override_library_copy(bm, local_id, ancestor_id, TRUE),
           local_id, reference_id)
    ELSE lib_override_library_init_empty(bm, local_id, reference_id))

(***************************************************************************)
(* The path index.                                                         *)
(***************************************************************************)
\* BLI_ghash_insert: the new entry goes to the head of its bucket.
GHashInsert(ghash, key, val) == <<<<key, val>>>> \o ghash

\* BLI_ghash_lookup: the first entry with the key, NULL when there is none.
GHashLookup(ghash, key) ==
  IF \E i \in DOMAIN ghash : ghash[i][1] = key
  THEN ghash[CHOOSE i \in DOMAIN ghash :
               ghash[i][1] = key /\ \A j \in 1..(i - 1) : ghash[j][1] # key][2]
  ELSE NULL

\* BLI_ghash_remove: removes the first entry with the key.
GHashRemove(ghash, key) ==
  IF \E i \in DOMAIN ghash : ghash[i][1] = key
  THEN RemoveAt(ghash, CHOOSE i \in DOMAIN ghash :
                  ghash[i][1] = key /\ \A j \in 1..(i - 1) : ghash[j][1] # key)
  ELSE ghash

RECURSIVE GHashFromProperties(_, _)
GHashFromProperties(properties, ghash) ==
  IF properties = <<>> THEN ghash
  ELSE GHashFromProperties(Tail(properties),
         GHashInsert(ghash, Head(properties).rna_path, Head(properties).ptr))

\* override_library_rna_path_mapping_ensure: the index is built from the
\* collection only while the GHash pointer is NULL.
override_library_rna_path_mapping_ensure(bm, id) ==
  IF bm.override_library[id].runtime.has_ghash THEN bm
  ELSE [bm EXCEPT !.override_library[id].runtime =
          [@ EXCEPT !.has_ghash = TRUE,
                    !.ghash = GHashFromProperties(bm.override_library[id].properties, <<>>)]]

\* BKE_lib_override_library_property_find: the registry after the call (the
\* index may have been built) and the property address returned.
BKE_lib_override_library_property_find(bm, id, rna_path) ==
  With(override_library_rna_path_mapping_ensure(bm, id), LAMBDA bm1 :
    [bm |-> bm1,
     ret |-> GHashLookup(bm1.override_library[id].runtime.ghash, rna_path)])

BKE_lib_override_library_property_get(bm, id, rna_path) ==
  With(BKE_lib_override_library_property_find(bm, id, rna_path), LAMBDA f :
    IF f.ret = NULL
    THEN With(FreshPtr(UsedPtrs(f.bm), 1), LAMBDA ptr :
           [bm |-> [f.bm EXCEPT
                      !.override_library[id].properties =
                         Append(@, [rna_path |-> rna_path, ptr |-> ptr, tag |-> {},
                                    operations |-> <<>>]),
                      !.override_library[id].runtime.ghash =
                         GHashInsert(@, rna_path, ptr)],
            ret |-> ptr, created |-> TRUE])
    ELSE [bm |-> f.bm, ret |-> f.ret, created |-> FALSE])

\* BKE_lib_override_library_property_delete of the i-th property of the list.
BKE_lib_override_library_property_delete(bm, id, i) ==
  LET ovr == bm.override_library[id]
      bm1 == IF ovr.runtime.has_ghash
             THEN [bm EXCEPT !.override_library[id].runtime.ghash =
                               GHashRemove(@, ovr.properties[i].rna_path)]
             ELSE bm
  IN [bm1 EXCEPT !.override_library[id].properties = RemoveAt(@, i)]

(***************************************************************************)
(* Operations of one property.                                             *)
(***************************************************************************)
NoName == "(null)"     \* the NULL char pointer of a sub-item name

\* BLI_findstring_ptr: position of the first link whose string at the given
\* field equals id, NULL (0) when there is none.
BLI_findstring_ptr(operations, id, field) ==
  IF \E i \in DOMAIN operations : operations[i][field] = id
  THEN CHOOSE i \in DOMAIN operations :
         operations[i][field] = id /\ \A j \in 1..(i - 1) : operations[j][field] # id
  ELSE NULL

\* BLI_listbase_bytes_find: position of the first link whose integer at the
\* given field equals the given bytes.
BLI_listbase_bytes_find(operations, bytes, field) ==
  IF \E i \in DOMAIN operations : operations[i][field] = bytes
  THEN CHOOSE i \in DOMAIN operations :
         operations[i][field] = bytes /\ \A j \in 1..(i - 1) : operations[j][field] # bytes
  ELSE NULL

BKE_lib_override_library_property_operation_find_mutant(operations, subitem_refname, subitem_locname, subitem_refindex, subitem_locindex, strict) ==
  [ret |-> IF subitem_locname # NoName
           THEN BLI_findstring_ptr(operations, subitem_locname, "subitem_local_name")
           ELSE BLI_findstring_ptr(operations, subitem_refname, "subitem_reference_name"),
   r_strict |-> TRUE]

(***************************************************************************)
(* BKE_lib_override_library_property_operation_find: position of the       *)
(* operation returned (0 is NULL) and the value left in *r_strict.         *)
(***************************************************************************)
BKE_lib_override_library_property_operation_find(operations, subitem_refname, subitem_locname, subitem_refindex, subitem_locindex, strict) ==
  LET subitem_defindex == -1
      by_locname == BLI_findstring_ptr(operations, subitem_locname, "subitem_local_name")
      by_refname == BLI_findstring_ptr(operations, subitem_refname, "subitem_reference_name")
      by_locindex == BLI_listbase_bytes_find(operations, subitem_locindex, "subitem_local_index")
      by_refindex == BLI_listbase_bytes_find(operations, subitem_refindex,
                                             "subitem_reference_index")
      by_defindex == BLI_listbase_bytes_find(operations, subitem_defindex, "subitem_local_index")
  IN IF subitem_locname # NoName
     THEN IF by_locname = NULL THEN [ret |-> NULL, r_strict |-> TRUE]
          ELSE [ret |-> IF subitem_refname = operations[by_locname].subitem_reference_name
                        THEN by_locname ELSE NULL,
                r_strict |-> TRUE]
     ELSE IF subitem_refname # NoName
     THEN IF by_refname = NULL THEN [ret |-> NULL, r_strict |-> TRUE]
          ELSE [ret |-> IF subitem_locname = operations[by_refname].subitem_local_name
                        THEN by_refname ELSE NULL,
                r_strict |-> TRUE]
     ELSE IF by_locindex # NULL
     THEN [ret |-> IF subitem_refindex \in {-1, operations[by_locindex].subitem_reference_index}
                   THEN by_locindex ELSE NULL,
           r_strict |-> TRUE]
     ELSE IF by_refindex # NULL
     THEN [ret |-> IF subitem_locindex \in {-1, operations[by_refindex].subitem_local_index}
                   THEN by_refindex ELSE NULL,
           r_strict |-> TRUE]
     ELSE IF ~strict /\ subitem_locindex # subitem_defindex /\ by_defindex # NULL
     THEN [ret |-> by_defindex, r_strict |-> FALSE]
     ELSE [ret |-> NULL, r_strict |-> TRUE]

(***************************************************************************)
(* BKE_lib_override_library_property_operation_get: the list after the     *)
(* call, the position returned, *r_strict and *r_created.                  *)
(***************************************************************************)
BKE_lib_override_library_property_operation_get(operations, operation, subitem_refname, subitem_locname, subitem_refindex, subitem_locindex, strict) ==
  With(BKE_lib_override_library_property_operation_find(
         operations, subitem_refname, subitem_locname, subitem_refindex,
         subitem_locindex, strict), LAMBDA f :
    IF f.ret = NULL
    THEN [operations |-> Append(operations,
                                [operation |-> operation,
                                 subitem_reference_name |-> subitem_refname,
                                 subitem_local_name |-> subitem_locname,
                                 subitem_reference_index |-> subitem_refindex,
                                 subitem_local_index |-> subitem_locindex,
                                 flag |-> {}, tag |-> {}]),
          ret |-> Len(operations) + 1,
          r_strict |-> f.r_strict, r_created |-> TRUE]
    ELSE [operations |-> operations, ret |-> f.ret,
          r_strict |-> f.r_strict, r_created |-> FALSE])

\* BKE_lib_override_library_property_operation_delete of the i-th operation.
BKE_lib_override_library_property_operation_delete(operations, i) == RemoveAt(operations, i)

(***************************************************************************)
(* Registries.                                                             *)
(*   ids        the IDs in Main            next_id   the next ID allocated *)
(*   lib        ID.lib (NULL: local)       code      GS(ID.name)           *)
(*   name       ID.name after the code     tag, flag ID.tag, ID.flag       *)
(*   newid      ID.newid                   us        ID.us                 *)
(*   override_library  ID.override_library                                 *)
(*   links      the ID pointers an ID holds, one record per pointer        *)
(*   key        the shape key of the ID (BKE_key_from_id)                  *)
(*   relations  whether Main.relations is built                            *)
(*   log        the steps the loops of the resync have run on the pairs of  *)
(*              an old and a new override, in the order they ran            *)
(*   values     the value of each RNA property of the ID, by its path      *)
(*   ob_type    Object.type                                                *)
(*   pose       Object.pose: POSE_NULL while the pointer is NULL,          *)
(*              POSE_RECALC while the pose is flagged to be rebuilt,       *)
(*              POSE_VALID otherwise                                       *)
(***************************************************************************)
OB_EMPTY == "EMPTY"
OB_ARMATURE == "ARMATURE"

POSE_NULL == "NULL"
POSE_RECALC == "RECALC"
POSE_VALID == "VALID"

EmptyMain ==
  [ids |-> {}, next_id |-> 1,
   lib |-> [e \in IDs |-> NULL],
   code |-> [e \in IDs |-> "OB"],
   name |-> [e \in IDs |-> <<"", 0>>],
   tag |-> [e \in IDs |-> {}],
   flag |-> [e \in IDs |-> {}],
   newid |-> [e \in IDs |-> NULL],
   us |-> [e \in IDs |-> 0],
   override_library |-> [e \in IDs |-> NoLink],
   links |-> {},
   key |-> [e \in IDs |-> NULL],
   relations |-> FALSE,
   log |-> <<>>,
   values |-> [e \in IDs |-> [rna_path \in ValuePaths |-> 0]],
   ob_type |-> [e \in IDs |-> OB_EMPTY],
   pose |-> [e \in IDs |-> POSE_NULL]]

\* A registry with one more ID, as read from a file.
AddID(bm, lib, code, base) ==
  [bm EXCEPT !.ids = @ \cup {bm.next_id},
             !.next_id = @ + 1,
             !.lib[bm.next_id] = lib,
             !.code[bm.next_id] = code,
             !.name[bm.next_id] = <<base, 0>>]

\* The last call: crashed tells that it ended the process, seq counts the
\* hierarchy calls made so far.
NoCall == [fn |-> "none", args |-> <<>>, ret |-> NULL, crashed |-> FALSE, seq |-> 0]

Call(fn, args, ret) ==
  [fn |-> fn, args |-> args, ret |-> ret, crashed |-> FALSE, seq |-> 0]

LocalIDs(bm) == {e \in bm.ids : bm.lib[e] = NULL}
LinkedIDs(bm) == {e \in bm.ids : bm.lib[e] # NULL}

(***************************************************************************)
(* Order of Main.  FOREACH_MAIN_ID goes through the lists of Main type by  *)
(* type; inside one list the local IDs come first, sorted by name, and the *)
(* linked IDs follow.                                                      *)
(***************************************************************************)
CodeRank(code) ==
  CASE code = "GR" -> 1 [] code = "OB" -> 2 [] code = "ME" -> 3 [] OTHER -> 4

NameBases == <<"", "A", "B", "C", "K", "M", "O", "OVERRIDE_HIDDEN", "P", "R", "S", "T", "X">>

NameRank(base) == CHOOSE i \in DOMAIN NameBases : NameBases[i] = base

MainOrderKey(bm, id) ==
  (((CodeRank(bm.code[id]) * 2 + (IF bm.lib[id] = NULL THEN 0 ELSE 1))
      * (Len(NameBases) + 1) + NameRank(bm.name[id][1]))
      * (MaxIDs + 1) + bm.name[id][2]) * (MaxIDs + 1) + id

\* The elements of a set of <<key, value>> pairs, by increasing key.
RECURSIVE SortPairs(_)
SortPairs(S) ==
  IF S = {} THEN <<>>
  ELSE LET m == CHOOSE x \in S : \A y \in S : x[1] <= y[1]
       IN <<m[2]>> \o SortPairs(S \ {m})

MainOrder(bm) == SortPairs({<<MainOrderKey(bm, id), id>> : id \in bm.ids})

(***************************************************************************)
(* ID pointers.  A link record [from, to, cb] is one ID pointer of `from`; *)
(* cb is the walk flag of the pointer: "USER" for a plain pointer,         *)
(* "LOOPBACK" (parent, owner, from), "EMBEDDED", or "CUSTOM" for the       *)
(* custom shape of a pose channel of an armature object (walked as a       *)
(* plain pointer).  The pointer to the shape key and the override          *)
(* reference are fields of their own.                                      *)
(***************************************************************************)
IDWALK_CB_USER == "USER"
IDWALK_CB_LOOPBACK == "LOOPBACK"
IDWALK_CB_EMBEDDED == "EMBEDDED"
IDWALK_CB_OVERRIDE_LIBRARY_REFERENCE == "OVERRIDE_REFERENCE"
PoseCustom == "CUSTOM"

Link(from, to, cb) == [from |-> from, to |-> to, cb |-> cb]

BKE_key_from_id(bm, id) == bm.key[id]

\* BKE_idtype_idcode_is_linkable: shape keys cannot be linked on their own.
BKE_idtype_idcode_is_linkable(code) == code # "KE"

\* Every pointer of an ID as BKE_library_foreach_ID_link visits them.
PointersOf(bm, id) ==
  {[to |-> l.to, cb |-> l.cb] : l \in {l \in bm.links : l.from = id}}
  \cup (IF bm.key[id] # NULL THEN {[to |-> bm.key[id], cb |-> IDWALK_CB_USER]} ELSE {})
  \cup (IF bm.override_library[id].has /\ bm.override_library[id].reference # NULL
        THEN {[to |-> bm.override_library[id].reference,
               cb |-> IDWALK_CB_OVERRIDE_LIBRARY_REFERENCE]}
        ELSE {})

CbRank(cb) ==
  CASE cb = IDWALK_CB_USER -> 0 [] cb = PoseCustom -> 1 [] cb = IDWALK_CB_LOOPBACK -> 2
    [] cb = IDWALK_CB_EMBEDDED -> 3 [] OTHER -> 4

PointerSeq(bm, id) ==
  SortPairs({<<p.to * 5 + CbRank(p.cb), p>> : p \in PointersOf(bm, id)})

(***************************************************************************)
(* Host functions of the registry (BKE_lib_id.h, BKE_lib_remap.h).         *)
(***************************************************************************)
\* The name a new local ID of the given type gets: the base name with the
\* first numeric suffix no local ID of the type uses.
UniqueName(bm, code, base) ==
  LET used == {bm.name[e][2] : e \in {e \in bm.ids : bm.lib[e] = NULL /\ bm.code[e] = code
                                                      /\ bm.name[e][1] = base}}
  IN <<base, CHOOSE n \in 0..Cardinality(bm.ids) :
               n \notin used /\ \A m \in 0..(n - 1) : m \in used>>

\* BKE_id_copy: a local duplicate of the ID, with the same pointers and
\* values, one user and no override data; the shape key of the ID is
\* duplicated with it.
BKE_id_copy(bm, id) ==
  LET new == bm.next_id
      bm1 == [bm EXCEPT
                !.ids = @ \cup {new},
                !.next_id = @ + 1,
                !.lib[new] = NULL,
                !.code[new] = bm.code[id],
                !.name[new] = UniqueName(bm, bm.code[id], bm.name[id][1]),
                !.tag[new] = {}, !.flag[new] = {}, !.newid[new] = NULL, !.us[new] = 1,
                !.override_library[new] = NoLink,
                !.values[new] = bm.values[id],
                !.ob_type[new] = bm.ob_type[id],
                !.pose[new] = bm.pose[id],
                !.links = @ \cup {Link(new, l.to, l.cb) : l \in {l \in bm.links : l.from = id}}]
      key == bm.key[id]
      new_key == new + 1
  IN IF key = NULL THEN [bm |-> bm1, ret |-> new]
     ELSE [bm |-> [bm1 EXCEPT
                     !.ids = @ \cup {new_key},
                     !.next_id = @ + 1,
                     !.lib[new_key] = NULL,
                     !.code[new_key] = "KE",
                     !.name[new_key] = UniqueName(bm1, "KE", bm.name[key][1]),
                     !.tag[new_key] = {}, !.flag[new_key] = {}, !.newid[new_key] = NULL,
                     !.us[new_key] = 1,
                     !.override_library[new_key] = NoLink,
                     !.key[new] = new_key,
                     !.links = @ \cup {Link(new_key, new, IDWALK_CB_LOOPBACK)}],
           ret |-> new]

\* BKE_libblock_relink_ex(bmain, id, old, new, ID_REMAP_SKIP_INDIRECT_USAGE |
\* ID_REMAP_SKIP_OVERRIDE_LIBRARY): every pointer of id to old now points to
\* new, the override reference left alone.
BKE_libblock_relink_ex(bm, id, old_id, new_id) ==
  [bm EXCEPT
     !.links = {IF l.from = id /\ l.to = old_id THEN Link(id, new_id, l.cb) ELSE l :
                  l \in {l \in @ : ~(new_id = NULL /\ l.from = id /\ l.to = old_id)}},
     !.key[id] = IF @ = old_id THEN new_id ELSE @]

\* BKE_libblock_remap(bmain, old, new, ID_REMAP_SKIP_INDIRECT_USAGE): every
\* pointer to old held by a local ID now points to new.
BKE_libblock_remap(bm, old_id, new_id) ==
  [bm EXCEPT
     !.links = {IF bm.lib[l.from] = NULL /\ l.to = old_id
                THEN Link(l.from, new_id, l.cb) ELSE l : l \in @},
     !.key = [e \in IDs |-> IF bm.lib[e] = NULL /\ @[e] = old_id THEN new_id ELSE @[e]],
     !.override_library =
        [e \in IDs |-> IF bm.lib[e] = NULL /\ @[e].has /\ @[e].reference = old_id
                       THEN [@[e] EXCEPT !.reference = new_id] ELSE @[e]]]

\* Deletion of a set of IDs: they leave Main together with their shape keys,
\* their override data is freed (releasing the use of the reference), and
\* every ID pointer to them is cleared.  ID.newid is no ID pointer and is
\* left as it is.
DeleteIDs(bm, del) ==
  LET gone == (del \cup {bm.key[e] : e \in del}) \ {NULL}
      RECURSIVE FreeAll(_, _)
      FreeAll(b, S) ==
        IF S = {} THEN b
        ELSE LET e == CHOOSE x \in S : TRUE
             IN FreeAll(IF b.override_library[e].has
                        THEN BKE_lib_override_library_free(b, e, TRUE) ELSE b, S \ {e})
      bm1 == FreeAll(bm, gone)
  IN [bm1 EXCEPT
        !.ids = @ \ gone,
        !.links = {l \in @ : l.from \notin gone /\ l.to \notin gone},
        !.key = [e \in IDs |-> IF @[e] \in gone THEN NULL ELSE @[e]],
        !.override_library =
           [e \in IDs |-> IF @[e].has /\ @[e].reference \in gone
                          THEN [@[e] EXCEPT !.reference = NULL] ELSE @[e]]]

\* BKE_id_delete of an ID of Main.
BKE_id_delete(bm, id) == DeleteIDs(bm, {id} \cap bm.ids)

\* BKE_id_multi_tagged_delete: every ID tagged LIB_TAG_DOIT is deleted.
BKE_id_multi_tagged_delete(bm) ==
  DeleteIDs(bm, {e \in bm.ids : LIB_TAG_DOIT \in bm.tag[e]})

\* BKE_main_id_clear_newpoins
BKE_main_id_clear_newpoins(bm) == [bm EXCEPT !.newid = [e \in IDs |-> NULL]]

\* BKE_main_id_tag_all(bmain, tag, false)
BKE_main_id_tag_all(bm, tag) == [bm EXCEPT !.tag = [e \in IDs |-> @[e] \ {tag}]]

(***************************************************************************)
(* lib_override_library_create_from.  do_fail: BKE_id_copy returns NULL.   *)
(***************************************************************************)
lib_override_library_create_from(bm, reference_id, do_fail) ==
  IF do_fail THEN [bm |-> bm, ret |-> NULL]
  ELSE With(BKE_id_copy(bm, reference_id), LAMBDA c :
       With(BKE_lib_override_library_init(id_us_min(c.bm, c.ret), c.ret, reference_id),
            LAMBDA bm2 :
         [bm |-> IF BKE_key_from_id(bm2, reference_id) # NULL
                 THEN [bm2 EXCEPT !.flag[BKE_key_from_id(bm2, c.ret)] =
                                     @ \cup {LIB_EMBEDDED_DATA_LIB_OVERRIDE}]
                 ELSE bm2,
          ret |-> c.ret]))

lib_override_library_relink_other_mutant(bm, other_id, reference_id, local_id) == bm

\* The remapping of one tagged local ID to one new override and its key
\* (the body of the loops over Main of create_from_id and create_from_tag).
lib_override_library_relink_other(bm, other_id, reference_id, local_id) ==
  LET reference_key == BKE_key_from_id(bm, reference_id)
      local_key == IF local_id = NULL THEN NULL ELSE BKE_key_from_id(bm, local_id)
  IN IF reference_key # NULL
     THEN BKE_libblock_relink_ex(
            BKE_libblock_relink_ex(bm, other_id, reference_id, local_id),
            other_id, reference_key, local_key)
     ELSE BKE_libblock_relink_ex(bm, other_id, reference_id, local_id)

lib_override_library_remap_filter_all(bm, other_id) == bm.lib[other_id] = NULL

\* The IDs the remapping is applied to: tagged and local.
lib_override_library_remap_filter(bm, other_id) ==
  LIB_TAG_DOIT \in bm.tag[other_id] /\ bm.lib[other_id] = NULL

RECURSIVE lib_override_library_relink_tagged(_, _, _, _)
lib_override_library_relink_tagged(bm, others, reference_id, local_id) ==
  IF others = <<>> THEN bm
  ELSE lib_override_library_relink_tagged(
         IF lib_override_library_remap_filter(bm, Head(others))
         THEN lib_override_library_relink_other(bm, Head(others), reference_id, local_id)
         ELSE bm,
         Tail(others), reference_id, local_id)

(***************************************************************************)
(* BKE_lib_override_library_create_from_id.  The result of                 *)
(* lib_override_library_create_from is not checked before the remapping:   *)
(* when the copy failed and the reference has a shape key,                 *)
(* BKE_key_from_id(NULL) reads through a null pointer; ub_crash tells      *)
(* whether that read ends the process or yields NULL.                      *)
(***************************************************************************)
BKE_lib_override_library_create_from_id(bm, reference_id, do_tagged_remap, do_fail, ub_crash) ==
  With(lib_override_library_create_from(bm, reference_id, do_fail), LAMBDA c :
    IF ~do_tagged_remap THEN [bm |-> c.bm, ret |-> c.ret, crashed |-> FALSE]
    ELSE IF c.ret = NULL /\ BKE_key_from_id(bm, reference_id) # NULL /\ ub_crash
    THEN [bm |-> c.bm, ret |-> NULL, crashed |-> TRUE]
    ELSE [bm |-> lib_override_library_relink_tagged(c.bm, MainOrder(c.bm), reference_id,
                                                   c.ret),
          ret |-> c.ret, crashed |-> FALSE])

(***************************************************************************)
(* BKE_lib_override_library_create_from_tag.                               *)
(*   fail_at   position in the work list of the entry whose BKE_id_copy    *)
(*             returns NULL (0: no copy fails);                            *)
(*   ub_crash  the clean-up loop hands every newid of the work list to     *)
(*             BKE_id_delete, also a NULL one, which BKE_id_delete reads   *)
(*             through: ub_crash tells whether that read ends the process  *)
(*             or the call is without effect.                              *)
(***************************************************************************)
lib_override_library_todo_ids_mutant(bm) ==
  SelectSeq(MainOrder(bm),
            LAMBDA id : bm.lib[id] # NULL /\ BKE_idtype_idcode_is_linkable(bm.code[id]))

\* Get all IDs we want to override.
lib_override_library_todo_ids(bm) ==
  SelectSeq(MainOrder(bm),
            LAMBDA id : /\ LIB_TAG_DOIT \in bm.tag[id]
                        /\ bm.lib[id] # NULL
                        /\ BKE_idtype_idcode_is_linkable(bm.code[id]))

\* What follows the creation of the override of one entry: the new ID is
\* tagged, and so are the shape keys of the reference and of the new ID.
lib_override_library_create_tag_new(bm, reference_id) ==
  LET new_id == bm.newid[reference_id]
      reference_key == BKE_key_from_id(bm, reference_id)
      local_key == BKE_key_from_id(bm, new_id)
  IN IF reference_key # NULL /\ local_key # NULL
     THEN [bm EXCEPT !.tag[new_id] = @ \cup {LIB_TAG_DOIT},
                     !.tag[reference_key] = @ \cup {LIB_TAG_DOIT},
                     !.newid[reference_key] = local_key,
                     !.tag[local_key] = @ \cup {LIB_TAG_DOIT}]
     ELSE [bm EXCEPT !.tag[new_id] = @ \cup {LIB_TAG_DOIT}]

\* Override the IDs.
RECURSIVE lib_override_library_create_loop(_, _, _, _)
lib_override_library_create_loop(bm, todo_ids, i, fail_at) ==
  IF i > Len(todo_ids) THEN [bm |-> bm, success |-> TRUE]
  ELSE LET reference_id == todo_ids[i]
       IN IF bm.newid[reference_id] = NULL
          THEN With(lib_override_library_create_from(bm, reference_id, i = fail_at),
                    LAMBDA c :
                 IF c.ret = NULL
                 THEN [bm |-> bm, success |-> FALSE]
                 ELSE lib_override_library_create_loop(
                        lib_override_library_create_tag_new(
                          [c.bm EXCEPT !.newid[reference_id] = c.ret], reference_id),
                        todo_ids, i + 1, fail_at))
          ELSE lib_override_library_create_loop(
                 lib_override_library_create_tag_new(bm, reference_id),
                 todo_ids, i + 1, fail_at)

\* Only remap new local ID's pointers.
RECURSIVE lib_override_library_remap_loop(_, _)
lib_override_library_remap_loop(bm, todo_ids) ==
  IF todo_ids = <<>> THEN bm
  ELSE LET reference_id == Head(todo_ids)
           local_id == bm.newid[reference_id]
       IN lib_override_library_remap_loop(
            IF local_id = NULL THEN bm
            ELSE lib_override_library_relink_tagged(bm, MainOrder(bm), reference_id, local_id),
            Tail(todo_ids))

\* We need to cleanup potentially already created data.
RECURSIVE lib_override_library_cleanup_loop(_, _, _)
lib_override_library_cleanup_loop(bm, todo_ids, ub_crash) ==
  IF todo_ids = <<>> THEN [bm |-> bm, crashed |-> FALSE]
  ELSE LET reference_id == Head(todo_ids)
       IN IF bm.newid[reference_id] = NULL
          THEN IF ub_crash THEN [bm |-> bm, crashed |-> TRUE]
               ELSE lib_override_library_cleanup_loop(bm, Tail(todo_ids), ub_crash)
          ELSE lib_override_library_cleanup_loop(
                 [BKE_id_delete(bm, bm.newid[reference_id])
                    EXCEPT !.newid[reference_id] = NULL],
                 Tail(todo_ids), ub_crash)

BKE_lib_override_library_create_from_tag(bm, fail_at, ub_crash) ==
  With(lib_override_library_todo_ids(bm), LAMBDA todo_ids :
  With(lib_override_library_create_loop(bm, todo_ids, 1, fail_at), LAMBDA c :
    IF c.success
    THEN [bm |-> lib_override_library_remap_loop(c.bm, todo_ids),
          ret |-> TRUE, crashed |-> FALSE, copied |-> TRUE]
    ELSE With(lib_override_library_cleanup_loop(c.bm, todo_ids, ub_crash), LAMBDA d :
           [bm |-> d.bm, ret |-> FALSE, crashed |-> d.crashed, copied |-> FALSE])))

(***************************************************************************)
(* Group tagging.  BKE_library_foreach_ID_link with IDWALK_RECURSE calls   *)
(* the callback on every pointer of the ID, marks the pointed ID as        *)
(* handled on the first visit, and goes on with the IDs it has stacked:    *)
(* those visited for the first time by a call that did not answer          *)
(* IDWALK_RET_STOP_RECURSION.                                              *)
(***************************************************************************)
IDWALK_RET_NOP == FALSE
IDWALK_RET_STOP_RECURSION == TRUE

\* The tag an ID of the group gets: missing_tag for a placeholder.
GroupTag(bm, id, is_missing, tag, missing_tag) ==
  [bm EXCEPT !.tag[id] = @ \cup {IF is_missing THEN missing_tag ELSE tag}]

\* The callback without its two tests on the ID it is called on.
lib_override_linked_group_tag_cb_mutant(bm, id_root, id_owner, p, tag, missing_tag) ==
  IF p.cb \in {IDWALK_CB_EMBEDDED, IDWALK_CB_LOOPBACK}
  THEN [bm |-> bm, ret |-> IDWALK_RET_STOP_RECURSION]
  ELSE IF p.to = id_owner THEN [bm |-> bm, ret |-> IDWALK_RET_NOP]
  ELSE IF bm.code[p.to] \in {"OB", "GR"}
  THEN [bm |-> GroupTag(bm, p.to, FALSE, tag, missing_tag), ret |-> IDWALK_RET_NOP]
  ELSE [bm |-> bm, ret |-> IDWALK_RET_NOP]

lib_override_linked_group_tag_cb(bm, id_root, id_owner, p, tag, missing_tag) ==
  LET id == p.to
  IN IF p.cb \in {IDWALK_CB_EMBEDDED, IDWALK_CB_LOOPBACK}
     THEN [bm |-> bm, ret |-> IDWALK_RET_STOP_RECURSION]
     ELSE IF id = id_owner THEN [bm |-> bm, ret |-> IDWALK_RET_NOP]
     ELSE IF bm.tag[id] \cap {tag, missing_tag} # {}
     THEN [bm |-> bm, ret |-> IDWALK_RET_STOP_RECURSION]
     ELSE IF bm.lib[id] # bm.lib[id_root]
     THEN [bm |-> bm, ret |-> IDWALK_RET_STOP_RECURSION]
     ELSE IF bm.code[id] \in {"OB", "GR"}
     THEN [bm |-> GroupTag(bm, id, LIB_TAG_MISSING \in bm.tag[id], tag, missing_tag),
           ret |-> IDWALK_RET_NOP]
     ELSE [bm |-> bm, ret |-> IDWALK_RET_NOP]

lib_override_local_group_tag_cb(bm, id_root, id_owner, p, tag, missing_tag) ==
  LET id == p.to
      library_reference_root == bm.lib[bm.override_library[id_root].reference]
  IN IF p.cb \in {IDWALK_CB_EMBEDDED, IDWALK_CB_LOOPBACK, IDWALK_CB_OVERRIDE_LIBRARY_REFERENCE}
     THEN [bm |-> bm, ret |-> IDWALK_RET_STOP_RECURSION]
     ELSE IF id = id_owner THEN [bm |-> bm, ret |-> IDWALK_RET_NOP]
     ELSE IF bm.tag[id] \cap {tag, missing_tag} # {}
     THEN [bm |-> bm, ret |-> IDWALK_RET_STOP_RECURSION]
     ELSE IF ~ID_IS_OVERRIDE_LIBRARY(bm, id) \/ ID_IS_LINKED(bm, id)
     THEN [bm |-> bm, ret |-> IDWALK_RET_STOP_RECURSION]
     ELSE IF ~ID_IS_OVERRIDE_LIBRARY_REAL(bm, id) THEN [bm |-> bm, ret |-> IDWALK_RET_NOP]
     ELSE IF bm.lib[bm.override_library[id].reference] # library_reference_root
     THEN [bm |-> bm, ret |-> IDWALK_RET_STOP_RECURSION]
     ELSE [bm |-> GroupTag(bm, id,
                           LIB_TAG_MISSING \in bm.tag[bm.override_library[id].reference],
                           tag, missing_tag),
           ret |-> IDWALK_RET_NOP]

GroupTagCallback(linked, bm, id_root, id_owner, p, tag, missing_tag) ==
  IF linked THEN lib_override_linked_group_tag_cb(bm, id_root, id_owner, p, tag, missing_tag)
  ELSE lib_override_local_group_tag_cb(bm, id_root, id_owner, p, tag, missing_tag)

\* BKE_library_foreach_ID_link(bmain, id_root, callback, &data,
\* IDWALK_READONLY | IDWALK_RECURSE): w holds the registry, the IDs handled
\* and the stack of IDs to do.  Two more fields record the walk: walked
\* holds the IDs whose pointers were visited, stopped the IDs that carried
\* tag or missing_tag when the callback was called on them the first time.
RECURSIVE ForeachPointer(_, _, _, _, _, _, _)
ForeachPointer(linked, w, id_root, id_owner, pointers, tag, missing_tag) ==
  IF pointers = <<>> THEN w
  ELSE With(GroupTagCallback(linked, w.bm, id_root, id_owner, Head(pointers), tag,
                             missing_tag), LAMBDA r :
         ForeachPointer(linked,
           [bm |-> r.bm,
            handled |-> w.handled \cup {Head(pointers).to},
            todo |-> IF Head(pointers).to \notin w.handled
                        /\ r.ret # IDWALK_RET_STOP_RECURSION
                     THEN <<Head(pointers).to>> \o w.todo ELSE w.todo,
            walked |-> w.walked,
            stopped |-> IF Head(pointers).to \notin w.handled
                           /\ w.bm.tag[Head(pointers).to] \cap {tag, missing_tag} # {}
                        THEN w.stopped \cup {Head(pointers).to} ELSE w.stopped],
           id_root, id_owner, Tail(pointers), tag, missing_tag))

RECURSIVE ForeachIDLinkRecurse(_, _, _, _, _, _)
ForeachIDLinkRecurse(linked, w, id_root, id, tag, missing_tag) ==
  With(ForeachPointer(linked, [w EXCEPT !.walked = @ \cup {id}], id_root, id,
                      PointerSeq(w.bm, id), tag, missing_tag),
       LAMBDA w1 :
    IF w1.todo = <<>> THEN w1
    ELSE ForeachIDLinkRecurse(linked, [w1 EXCEPT !.todo = Tail(@)], id_root,
                              Head(w1.todo), tag, missing_tag))

\* The walk from id_root, with what it has recorded.
ForeachIDLinkWalk(linked, bm, id_root, tag, missing_tag) ==
  ForeachIDLinkRecurse(linked,
                       [bm |-> bm, handled |-> {id_root}, todo |-> <<>>,
                        walked |-> {}, stopped |-> {}],
                       id_root, id_root, tag, missing_tag)

BKE_library_foreach_ID_link(linked, bm, id_root, tag, missing_tag) ==
  ForeachIDLinkWalk(linked, bm, id_root, tag, missing_tag).bm

(***************************************************************************)
(* lib_override_hierarchy_dependencies_recursive_tag.  processed holds the *)
(* IDs whose entry BKE_main_relations_ID_remove has taken out of           *)
(* Main.relations; an ID without pointers has no entry at all.             *)
(***************************************************************************)
lib_override_hierarchy_dependencies_entries_mutant(bm, processed, id, entries, tag) ==
  [bm |-> bm, processed |-> processed]

RECURSIVE lib_override_hierarchy_dependencies_recursive_tag(_, _, _, _)
RECURSIVE lib_override_hierarchy_dependencies_entries(_, _, _, _, _)

lib_override_hierarchy_dependencies_recursive_tag(bm, processed, id, tag) ==
  IF id \in processed \/ PointersOf(bm, id) = {}
  THEN [bm |-> bm, processed |-> processed, ret |-> tag \in bm.tag[id]]
  ELSE With(lib_override_hierarchy_dependencies_entries(
              bm, processed \cup {id}, id, PointerSeq(bm, id), tag), LAMBDA r :
         [bm |-> r.bm, processed |-> r.processed, ret |-> tag \in r.bm.tag[id]])

lib_override_hierarchy_dependencies_entries(bm, processed, id, entries, tag) ==
  IF entries = <<>> THEN [bm |-> bm, processed |-> processed]
  ELSE LET entry == Head(entries)
       IN IF entry.cb = IDWALK_CB_LOOPBACK
          THEN lib_override_hierarchy_dependencies_entries(bm, processed, id, Tail(entries), tag)
          ELSE IF bm.lib[entry.to] = bm.lib[id]
          THEN With(lib_override_hierarchy_dependencies_recursive_tag(
                      bm, processed, entry.to, tag), LAMBDA r :
                 lib_override_hierarchy_dependencies_entries(
                   IF r.ret THEN [r.bm EXCEPT !.tag[id] = @ \cup {tag}] ELSE r.bm,
                   r.processed, id, Tail(entries), tag))
          ELSE lib_override_hierarchy_dependencies_entries(bm, processed, id, Tail(entries), tag)

BKE_main_relations_create(bm) == [bm EXCEPT !.relations = TRUE]

BKE_main_relations_free(bm) == [bm EXCEPT !.relations = FALSE]

(***************************************************************************)
(* lib_override_linked_group_tag                                           *)
(***************************************************************************)
\* Then, we remove (untag) bone shape objects.
lib_override_linked_group_untag_bone_shapes(bm, tag, missing_tag) ==
  LET shapes == {l.to : l \in {l \in bm.links :
                    l.cb = PoseCustom /\ bm.code[l.from] = "OB" /\ tag \in bm.tag[l.from]}}
  IN [bm EXCEPT !.tag = [e \in IDs |-> IF e \in shapes THEN @[e] \ {tag, missing_tag}
                                        ELSE @[e]]]

lib_override_linked_group_tag(bm, id, tag, missing_tag) ==
  BKE_main_relations_free(
    lib_override_hierarchy_dependencies_recursive_tag(
      IF bm.code[id] \in {"OB", "GR"}
      THEN lib_override_linked_group_untag_bone_shapes(
             BKE_library_foreach_ID_link(TRUE, BKE_main_relations_create(bm), id, tag,
                                         missing_tag),
             tag, missing_tag)
      ELSE BKE_main_relations_create(bm),
      {}, id, tag).bm)

(***************************************************************************)
(* lib_override_local_group_tag                                            *)
(***************************************************************************)
lib_override_local_group_tag(bm, id, tag, missing_tag) ==
  BKE_library_foreach_ID_link(FALSE, bm, id, tag, missing_tag)

(***************************************************************************)
(* lib_override_library_create_do.  lib_override_linked_group_tag builds   *)
(* Main.relations anew and frees it before it returns, so the call of      *)
(* lib_override_hierarchy_dependencies_recursive_tag that follows reads    *)
(* bmain->relations->id_user_to_used through a null pointer: ub_crash      *)
(* tells whether that read ends the process or finds no entry.             *)
(***************************************************************************)
\* What lib_override_linked_group_tag does with Main.relations, in the order
\* of its statements: BKE_main_relations_create, the call of
\* lib_override_hierarchy_dependencies_recursive_tag, BKE_main_relations_free.
lib_override_linked_group_tag_relations ==
  <<"relations_create", "relations_read", "relations_free">>

\* What lib_override_library_create_do does with Main.relations: its own
\* BKE_main_relations_create, lib_override_linked_group_tag, and its own call
\* of lib_override_hierarchy_dependencies_recursive_tag.
lib_override_library_create_do_relations ==
  <<"relations_create">> \o lib_override_linked_group_tag_relations
    \o <<"relations_read">>

\* The tagging of lib_override_library_create_do, up to the return of
\* lib_override_linked_group_tag.
lib_override_library_create_do_tag(bm, id_root) ==
  lib_override_linked_group_tag(
    BKE_main_relations_create([bm EXCEPT !.tag[id_root] = @ \cup {LIB_TAG_DOIT}]),
    id_root, LIB_TAG_DOIT, LIB_TAG_MISSING)

lib_override_library_create_do(bm, id_root, fail_at, ub_crash) ==
  With(lib_override_library_create_do_tag(bm, id_root), LAMBDA bm3 :
    IF ~bm3.relations /\ ub_crash
    THEN [bm |-> bm3, ret |-> FALSE, crashed |-> TRUE, copied |-> TRUE]
    ELSE BKE_lib_override_library_create_from_tag(
           IF bm3.relations
           THEN lib_override_hierarchy_dependencies_recursive_tag(
                  bm3, {}, id_root, LIB_TAG_DOIT).bm
           ELSE bm3,
           fail_at, ub_crash))

(***************************************************************************)
(* Collections and the view layer (BKE_collection.h, BKE_layer.h).  A      *)
(* collection holds its children and its objects as plain pointers; scene  *)
(* is the master collection of the scene, and an object has a base in the  *)
(* view layer when a collection of the scene holds it.                     *)
(***************************************************************************)
RECURSIVE CollectionsUnder(_, _, _)
CollectionsUnder(bm, seen, frontier) ==
  IF frontier = {} THEN seen
  ELSE LET next == {l.to : l \in {l \in bm.links :
                      l.from \in frontier /\ bm.code[l.to] = "GR" /\ l.cb = IDWALK_CB_USER}}
       IN CollectionsUnder(bm, seen \cup frontier, next \ (seen \cup frontier))

\* FOREACH_SCENE_COLLECTION
SceneCollections(bm, scene) == CollectionsUnder(bm, {}, {scene})

CollectionHas(bm, collection, id) == Link(collection, id, IDWALK_CB_USER) \in bm.links

BKE_view_layer_base_find(bm, scene, ob) ==
  \E collection \in SceneCollections(bm, scene) : CollectionHas(bm, collection, ob)

\* collection_child_add / collection_object_add
CollectionAdd(bm, collection, id) ==
  [bm EXCEPT !.links = @ \cup {Link(collection, id, IDWALK_CB_USER)}]

\* BKE_collection_add_from_collection, BKE_collection_add_from_object and
\* BKE_collection_object_add_from: dst goes into every local collection of
\* the scene that is no override and holds src, and into the master
\* collection when there is none.
CollectionAddFrom(bm, scene, src, dst) ==
  LET holders == {collection \in SceneCollections(bm, scene) :
                    /\ ~ID_IS_LINKED(bm, collection)
                    /\ ~ID_IS_OVERRIDE_LIBRARY(bm, collection)
                    /\ CollectionHas(bm, collection, src)}
  IN [bm EXCEPT !.links = @ \cup
        {Link(collection, dst, IDWALK_CB_USER) :
           collection \in (IF holders = {} THEN {scene} ELSE holders)}]

\* BKE_collection_add(bmain, parent, "OVERRIDE_HIDDEN"): a new local
\* collection, child of parent.
BKE_collection_add(bm, collection_parent) ==
  LET new == bm.next_id
  IN [bm |-> CollectionAdd(
               [bm EXCEPT !.ids = @ \cup {new},
                          !.next_id = @ + 1,
                          !.lib[new] = NULL,
                          !.code[new] = "GR",
                          !.name[new] = UniqueName(bm, "GR", "OVERRIDE_HIDDEN"),
                          !.tag[new] = {}, !.flag[new] = {}, !.newid[new] = NULL,
                          !.us[new] = 0,
                          !.override_library[new] = NoLink],
               collection_parent, new),
      ret |-> new]

(***************************************************************************)
(* lib_override_library_create_post_process                                *)
(***************************************************************************)
\* FOREACH_COLLECTION_OBJECT_RECURSIVE on the new collection: its override
\* objects without a base are put next to the reference object, or into the
\* new collection itself.
lib_override_library_post_process_objects(bm, scene, collection_new, ob_reference) ==
  LET obs == {ob_new \in bm.ids :
                /\ bm.code[ob_new] = "OB"
                /\ \E collection \in CollectionsUnder(bm, {}, {collection_new}) :
                      CollectionHas(bm, collection, ob_new)
                /\ bm.override_library[ob_new].has
                /\ ~BKE_view_layer_base_find(bm, scene, ob_new)}
      RECURSIVE AddAll(_, _)
      AddAll(b, S) ==
        IF S = {} THEN b
        ELSE LET ob_new == CHOOSE x \in S : TRUE
             IN AddAll(IF ob_reference # NULL
                       THEN CollectionAddFrom(b, scene, ob_reference, ob_new)
                       ELSE CollectionAdd(b, collection_new, ob_new), S \ {ob_new})
  IN AddAll(bm, obs)

lib_override_library_post_process_root(bm, scene, id_root, id_reference) ==
  IF bm.code[id_root] = "GR"
  THEN LET ob_reference == IF id_reference # NULL /\ bm.code[id_reference] = "OB"
                           THEN id_reference ELSE NULL
           collection_new == bm.newid[id_root]
           src == IF id_reference # NULL THEN id_reference ELSE id_root
       IN lib_override_library_post_process_objects(
            CollectionAddFrom(bm, scene, src, collection_new),
            scene, collection_new, ob_reference)
  ELSE IF bm.code[id_root] = "OB"
  THEN CollectionAddFrom(bm, scene, id_root, bm.newid[id_root])
  ELSE bm

\* The collection a new object override without a base is put into.
lib_override_library_default_instantiating_collection(bm, scene, id_root) ==
  IF bm.code[id_root] = "GR"
  THEN BKE_collection_add(bm, id_root)
  ELSE LET candidates == SelectSeq(MainOrder(bm),
                           LAMBDA collection :
                             /\ bm.code[collection] = "GR"
                             /\ CollectionHas(bm, collection, id_root)
                             /\ collection \in SceneCollections(bm, scene)
                             /\ ~ID_IS_LINKED(bm, collection)
                             /\ ~ID_IS_OVERRIDE_LIBRARY(bm, collection))
       IN [bm |-> bm,
           ret |-> IF candidates = <<>> THEN scene ELSE candidates[Len(candidates)]]

\* We need to ensure all new overrides of objects are properly instantiated.
RECURSIVE lib_override_library_post_process_instantiate(_, _, _, _)
lib_override_library_post_process_instantiate(bm, scene, id_root, obs) ==
  IF obs = <<>> THEN bm
  ELSE LET ob_new == bm.newid[Head(obs)]
       IN lib_override_library_post_process_instantiate(
            IF ob_new # NULL /\ ~BKE_view_layer_base_find(bm, scene, ob_new)
            THEN With(lib_override_library_default_instantiating_collection(
                        bm, scene, id_root),
                      LAMBDA d : CollectionAdd(d.bm, d.ret, ob_new))
            ELSE bm,
            scene, id_root, Tail(obs))

\* The collection functions called on the root read through the new
\* counterpart of the root: when the root got none (newid is NULL), ub_crash
\* tells whether that read ends the process or nothing is added.
lib_override_library_create_post_process(bm, scene, id_root, id_reference, ub_crash) ==
  LET no_root == bm.code[id_root] \in {"GR", "OB"} /\ bm.newid[id_root] = NULL
  IN IF no_root /\ ub_crash THEN [bm |-> bm, crashed |-> TRUE]
     ELSE With(IF no_root THEN bm
               ELSE lib_override_library_post_process_root(bm, scene, id_root,
                                                           id_reference),
               LAMBDA bm1 :
            [bm |-> lib_override_library_post_process_instantiate(
                      bm1, scene, id_root,
                      SelectSeq(MainOrder(bm1), LAMBDA ob : bm1.code[ob] = "OB")),
             crashed |-> FALSE])

(***************************************************************************)
(* BKE_lib_override_library_create.  mid is the registry as                *)
(* lib_override_library_create_do leaves it, before the post-processing    *)
(* and the final clean-up of newid and of the tags.                        *)
(***************************************************************************)
lib_override_library_create_cleanup(bm) ==
  BKE_main_id_tag_all(BKE_main_id_clear_newpoins(bm), LIB_TAG_DOIT)

BKE_lib_override_library_create(bm, scene, id_root, id_reference, fail_at, ub_crash) ==
  With(lib_override_library_create_do(bm, id_root, fail_at, ub_crash), LAMBDA c :
    IF ~c.ret
    THEN [bm |-> c.bm, mid |-> c.bm, ret |-> FALSE, crashed |-> c.crashed,
          copied |-> c.copied]
    ELSE With(lib_override_library_create_post_process(
                c.bm, scene, id_root, id_reference, ub_crash), LAMBDA p :
           IF p.crashed
           THEN [bm |-> p.bm, mid |-> c.bm, ret |-> FALSE, crashed |-> TRUE,
                 copied |-> TRUE]
           ELSE [bm |-> lib_override_library_create_cleanup(p.bm),
                 mid |-> c.bm, ret |-> TRUE, crashed |-> FALSE, copied |-> TRUE]))

(***************************************************************************)
(* BKE_lib_override_library_proxy_convert of a proxy object without        *)
(* proxy_group.  The proxy pointer of ob_proxy is its "PROXY" link.        *)
(***************************************************************************)
ProxyLink == "PROXY"

ProxyOf(bm, ob_proxy) ==
  IF \E l \in bm.links : l.from = ob_proxy /\ l.cb = ProxyLink
  THEN (CHOOSE l \in bm.links : l.from = ob_proxy /\ l.cb = ProxyLink).to
  ELSE NULL

ID_IS_OVERRIDABLE_LIBRARY(bm, id) == ID_IS_LINKED(bm, id)

\* The conversion of the proxy itself, before BKE_lib_override_library_create.
lib_override_library_proxy_convert_init(bm, ob_proxy) ==
  LET proxy == ProxyOf(bm, ob_proxy)
  IN [BKE_lib_override_library_init(
        [bm EXCEPT !.tag[proxy] = @ \cup {LIB_TAG_DOIT}, !.newid[proxy] = ob_proxy],
        ob_proxy, proxy)
      EXCEPT !.links = {l \in @ : ~(l.from = ob_proxy /\ l.cb = ProxyLink)}]

BKE_lib_override_library_proxy_convert(bm, scene, ob_proxy, fail_at, ub_crash) ==
  LET id_root == ProxyOf(bm, ob_proxy)
      id_reference == ob_proxy
  IN IF ~ID_IS_OVERRIDABLE_LIBRARY(bm, id_root)
     THEN [bm |-> bm, mid |-> bm, ret |-> FALSE, crashed |-> FALSE, copied |-> TRUE]
     ELSE BKE_lib_override_library_create(
            lib_override_library_proxy_convert_init(bm, ob_proxy),
            scene, id_root, id_reference, fail_at, ub_crash)

(***************************************************************************)
(* RNA (RNA_access.h), as far as the overrides use it.                     *)
(***************************************************************************)
PROP_INT == "INT"
PROP_POINTER == "POINTER"

RNA_property_type(rna_path) == IF rna_path = "b" THEN PROP_POINTER ELSE PROP_INT

RNA_property_overridable(rna_path) == rna_path # "c"

\* The ID the pointer property of an ID points to.
RNA_property_pointer_get(bm, id) ==
  LET to == {l.to : l \in {l \in bm.links : l.from = id /\ l.cb = IDWALK_CB_USER}}
  IN IF to = {} THEN NULL ELSE CHOOSE t \in to : \A u \in to : t <= u

RNA_property_get(bm, id, rna_path) ==
  IF RNA_property_type(rna_path) = PROP_POINTER THEN RNA_property_pointer_get(bm, id)
  ELSE bm.values[id][rna_path]

RNA_property_set(bm, id, rna_path, value) ==
  IF RNA_property_type(rna_path) = PROP_POINTER
  THEN [bm EXCEPT !.links = {l \in @ : ~(l.from = id /\ l.cb = IDWALK_CB_USER)}
                            \cup (IF value = NULL THEN {}
                                  ELSE {Link(id, value, IDWALK_CB_USER)})]
  ELSE [bm EXCEPT !.values[id][rna_path] = value]

(***************************************************************************)
(* BKE_lib_override_library_resync                                         *)
(***************************************************************************)
\* The mapping in which a later override of a reference replaces an earlier.
linkedref_to_old_override_mutant(bm) ==
  LET order == MainOrder(bm)
      olds(reference) == SelectSeq(order,
                           LAMBDA id : /\ LIB_TAG_DOIT \in bm.tag[id]
                                       /\ ID_IS_OVERRIDE_LIBRARY_REAL(bm, id)
                                       /\ bm.override_library[id].reference = reference)
  IN [reference \in IDs |-> IF olds(reference) = <<>> THEN NULL
                            ELSE olds(reference)[Len(olds(reference))]]

\* Make a mapping 'linked reference IDs' -> 'Local override IDs' of existing
\* overrides: the first override of each reference in the order of Main.
linkedref_to_old_override(bm) ==
  LET order == MainOrder(bm)
      olds(reference) == SelectSeq(order,
                           LAMBDA id : /\ LIB_TAG_DOIT \in bm.tag[id]
                                       /\ ID_IS_OVERRIDE_LIBRARY_REAL(bm, id)
                                       /\ bm.override_library[id].reference = reference)
  IN [reference \in IDs |-> IF olds(reference) = <<>> THEN NULL ELSE olds(reference)[1]]

\* The linked IDs the loops of the resync act on.
lib_override_library_resync_ids(bm) ==
  SelectSeq(MainOrder(bm),
            LAMBDA id : /\ LIB_TAG_DOIT \in bm.tag[id]
                        /\ bm.newid[id] # NULL
                        /\ ID_IS_LINKED(bm, id))

\* One step of a loop of the resync on the pair of an old and a new override.
ResyncStep(step, id_override_old, id_override_new) ==
  [step |-> step, old |-> id_override_old, new |-> id_override_new]

lib_override_library_resync_swap_names_mutant(bm, id_override_old, id_override_new) == bm

\* Swap the names between old override ID and new one.
lib_override_library_resync_swap_names(bm, id_override_old, id_override_new) ==
  [bm EXCEPT !.name[id_override_old] = bm.name[id_override_new],
             !.name[id_override_new] = bm.name[id_override_old],
             !.log = Append(@, ResyncStep("swap_names", id_override_old, id_override_new))]

lib_override_library_resync_remap_mutant(bm, id_override_old, id_override_new) == bm

\* Remap the whole local IDs to use the new override.
lib_override_library_resync_remap(bm, id_override_old, id_override_new) ==
  [BKE_libblock_remap(bm, id_override_old, id_override_new)
   EXCEPT !.log = Append(@, ResyncStep("remap", id_override_old, id_override_new))]

\* Copy over overrides rules from old override ID to new one.
lib_override_library_resync_copy_rules(bm, id_override_old, id_override_new) ==
  [bm EXCEPT !.override_library[id_override_new].properties =
               DuplicateProperties(bm, bm.override_library[id_override_old].properties),
             !.log = Append(@, ResyncStep("copy_rules", id_override_old, id_override_new))]

RECURSIVE lib_override_library_resync_replace(_, _, _)
lib_override_library_resync_replace(bm, map, ids) ==
  IF ids = <<>> THEN bm
  ELSE LET id_override_new == bm.newid[Head(ids)]
           id_override_old == map[Head(ids)]
       IN lib_override_library_resync_replace(
            IF id_override_old # NULL
            THEN lib_override_library_resync_copy_rules(
                   lib_override_library_resync_remap(
                     lib_override_library_resync_swap_names(
                       bm, id_override_old, id_override_new),
                     id_override_old, id_override_new),
                   id_override_old, id_override_new)
            ELSE bm,
            map, Tail(ids))

\* We remove any operation tagged with
\* IDOVERRIDE_LIBRARY_FLAG_IDPOINTER_MATCH_REFERENCE, and the properties
\* left without operation; i runs over the properties from the last.
RECURSIVE lib_override_library_resync_clear_shallow(_, _, _)
lib_override_library_resync_clear_shallow(bm, id, i) ==
  IF i = 0 THEN bm
  ELSE LET operations == SelectSeq(bm.override_library[id].properties[i].operations,
                           LAMBDA opop :
                             IDOVERRIDE_LIBRARY_FLAG_IDPOINTER_MATCH_REFERENCE \notin opop.flag)
       IN lib_override_library_resync_clear_shallow(
            IF operations = <<>>
            THEN BKE_lib_override_library_property_delete(
                   [bm EXCEPT !.override_library[id].properties[i].operations = operations],
                   id, i)
            ELSE [bm EXCEPT !.override_library[id].properties[i].operations = operations],
            id, i - 1)

\* The operations of one property are applied: an operation that replaces
\* sets the property of id_dst to the value it has in id_src.
rna_property_override_apply(bm, id_dst, id_src, override_property) ==
  IF \E i \in DOMAIN override_property.operations :
       override_property.operations[i].operation = IDOVERRIDE_LIBRARY_OP_REPLACE
  THEN RNA_property_set(bm, id_dst, override_property.rna_path,
                        RNA_property_get(bm, id_src, override_property.rna_path))
  ELSE bm

RECURSIVE rna_struct_override_apply_loop(_, _, _, _)
rna_struct_override_apply_loop(bm, id_dst, id_src, properties) ==
  IF properties = <<>> THEN bm
  ELSE rna_struct_override_apply_loop(
         rna_property_override_apply(bm, id_dst, id_src, Head(properties)),
         id_dst, id_src, Tail(properties))

\* RNA_struct_override_apply(bmain, dst, src, NULL, override), the override
\* data being the one of id_override.
RNA_struct_override_apply(bm, id_dst, id_src, id_override) ==
  [rna_struct_override_apply_loop(bm, id_dst, id_src,
                                  bm.override_library[id_override].properties)
     EXCEPT !.log = Append(@, ResyncStep("apply", id_src, id_dst))]

RECURSIVE lib_override_library_resync_apply(_, _, _)
lib_override_library_resync_apply(bm, map, ids) ==
  IF ids = <<>> THEN bm
  ELSE LET id_override_new == bm.newid[Head(ids)]
           id_override_old == map[Head(ids)]
       IN lib_override_library_resync_apply(
            IF id_override_old # NULL
            THEN RNA_struct_override_apply(
                   lib_override_library_resync_clear_shallow(
                     bm, id_override_new,
                     Len(bm.override_library[id_override_new].properties)),
                   id_override_new, id_override_old, id_override_new)
            ELSE bm,
            map, Tail(ids))

\* Delete old override IDs: the tags the tagged deletion acts on.
RECURSIVE lib_override_library_resync_tag_old(_, _, _)
lib_override_library_resync_tag_old(bm, map, ids) ==
  IF ids = <<>> THEN bm
  ELSE LET id == Head(ids)
           bm1 ==
             IF LIB_TAG_DOIT \in bm.tag[id]
             THEN LET b == IF bm.newid[id] # NULL /\ ID_IS_LINKED(bm, id) /\ map[id] # NULL
                           THEN [bm EXCEPT !.tag[bm.newid[id]] = @ \ {LIB_TAG_DOIT},
                                           !.tag[map[id]] = @ \cup {LIB_TAG_DOIT}]
                           ELSE bm
                  IN [b EXCEPT !.tag[id] = @ \ {LIB_TAG_DOIT}]
             ELSE IF LIB_TAG_MISSING \in bm.tag[id] /\ ~ID_IS_LINKED(bm, id)
             THEN [bm EXCEPT !.tag[id] = (@ \cup {LIB_TAG_DOIT}) \ {LIB_TAG_MISSING}]
             ELSE bm
       IN lib_override_library_resync_tag_old(bm1, map, Tail(ids))

\* The tagging of the resync: the local group of the root, then the linked
\* group of its reference.
lib_override_library_resync_tag(bm, id_root) ==
  lib_override_linked_group_tag(
    lib_override_local_group_tag([bm EXCEPT !.tag[id_root] = @ \cup {LIB_TAG_DOIT}],
                                 id_root, LIB_TAG_DOIT, LIB_TAG_MISSING),
    bm.override_library[id_root].reference, LIB_TAG_DOIT, LIB_TAG_MISSING)

\* One loop that replaces and applies pair by pair.
RECURSIVE lib_override_library_resync_overrides_mutant(_, _, _)
lib_override_library_resync_overrides_mutant(bm, map, ids) ==
  IF ids = <<>> THEN bm
  ELSE lib_override_library_resync_overrides_mutant(
         lib_override_library_resync_apply(
           lib_override_library_resync_replace(bm, map, <<Head(ids)>>), map, <<Head(ids)>>),
         map, Tail(ids))

\* The two loops over the linked IDs: the old overrides are replaced by the
\* new ones, then the new ones get the overridden values.
lib_override_library_resync_overrides(bm, map, ids) ==
  lib_override_library_resync_apply(
    lib_override_library_resync_replace(bm, map, ids), map, ids)

\* The result: the registry, the success of the call, log, the steps the two
\* loops ran, the mapping from the
\* references to the old overrides, mid, the registry as
\* BKE_lib_override_library_create_from_tag left it, and copied: no copy of
\* the work list failed.
BKE_lib_override_library_resync(bm, scene, id_root, fail_at, ub_crash) ==
  With(lib_override_library_resync_tag(bm, id_root), LAMBDA bm3 :
  With(linkedref_to_old_override(bm3), LAMBDA map :
  With(BKE_lib_override_library_create_from_tag(bm3, fail_at, ub_crash), LAMBDA c :
    IF ~c.ret
    THEN [bm |-> c.bm, mid |-> c.bm, ret |-> FALSE, crashed |-> c.crashed, map |-> map,
          copied |-> FALSE, log |-> <<>>]
    ELSE With(lib_override_library_resync_overrides(
                c.bm, map, lib_override_library_resync_ids(c.bm)), LAMBDA bm5 :
         With(BKE_id_multi_tagged_delete(
                lib_override_library_resync_tag_old(bm5, map, MainOrder(bm5))),
              LAMBDA bm7 :
         With(lib_override_library_create_post_process(
                bm7, scene, bm.override_library[id_root].reference,
                bm7.newid[bm.override_library[id_root].reference], ub_crash), LAMBDA p :
           IF p.crashed
           THEN [bm |-> [p.bm EXCEPT !.log = <<>>], mid |-> c.bm, ret |-> FALSE,
                 crashed |-> TRUE, map |-> map, copied |-> TRUE, log |-> bm5.log]
           ELSE [bm |-> [lib_override_library_create_cleanup(p.bm) EXCEPT !.log = <<>>],
                 mid |-> c.bm, ret |-> TRUE, crashed |-> FALSE, map |-> map,
                 copied |-> TRUE, log |-> bm5.log]))))))

(***************************************************************************)
(* BKE_lib_override_library_delete                                         *)
(***************************************************************************)
lib_override_library_delete_remap_tagged_mutant(bm) == bm

\* Remap the whole local IDs to use the linked data.
RECURSIVE lib_override_library_delete_remap(_, _)
lib_override_library_delete_remap(bm, ids) ==
  IF ids = <<>> THEN bm
  ELSE lib_override_library_delete_remap(
         IF LIB_TAG_DOIT \in bm.tag[Head(ids)] /\ ID_IS_OVERRIDE_LIBRARY_REAL(bm, Head(ids))
         THEN BKE_libblock_remap(bm, Head(ids), bm.override_library[Head(ids)].reference)
         ELSE bm,
         Tail(ids))

\* The remap of every override tagged, in the order of Main.
lib_override_library_delete_remap_tagged(bm) ==
  lib_override_library_delete_remap(bm, MainOrder(bm))

BKE_lib_override_library_delete(bm, id_root) ==
  BKE_main_id_tag_all(
    BKE_id_multi_tagged_delete(
      lib_override_library_delete_remap_tagged(
        lib_override_local_group_tag(
          [bm EXCEPT !.tag[id_root] = @ \cup {LIB_TAG_DOIT}],
          id_root, LIB_TAG_DOIT, LIB_TAG_DOIT))),
    LIB_TAG_DOIT)

(***************************************************************************)
(* Tags of the properties and of their operations.                         *)
(***************************************************************************)
SetTag(tags, tag, do_set) == IF do_set THEN tags \cup {tag} ELSE tags \ {tag}

\* BKE_lib_override_library_operations_tag on a property record.
BKE_lib_override_library_operations_tag(override_property, tag, do_set) ==
  [override_property EXCEPT
     !.tag = SetTag(@, tag, do_set),
     !.operations = [i \in DOMAIN @ |-> [@[i] EXCEPT !.tag = SetTag(@, tag, do_set)]]]

BKE_lib_override_library_properties_tag(bm, id, tag, do_set) ==
  IF bm.override_library[id].has
  THEN [bm EXCEPT !.override_library[id].properties =
          [i \in DOMAIN @ |-> BKE_lib_override_library_operations_tag(@[i], tag, do_set)]]
  ELSE bm

RECURSIVE lib_override_library_main_tag_loop(_, _, _, _)
lib_override_library_main_tag_loop(bm, ids, tag, do_set) ==
  IF ids = <<>> THEN bm
  ELSE lib_override_library_main_tag_loop(
         IF ID_IS_OVERRIDE_LIBRARY(bm, Head(ids))
         THEN BKE_lib_override_library_properties_tag(bm, Head(ids), tag, do_set)
         ELSE bm,
         Tail(ids), tag, do_set)

BKE_lib_override_library_main_tag(bm, tag, do_set) ==
  lib_override_library_main_tag_loop(bm, MainOrder(bm), tag, do_set)

\* The operations of a list that are not tagged as unused.
lib_override_library_operations_used(operations) ==
  SelectSeq(operations, LAMBDA opop : IDOVERRIDE_LIBRARY_TAG_UNUSED \notin opop.tag)

\* The loop of BKE_lib_override_library_id_unused_cleanup; i runs over the
\* properties from the last.
RECURSIVE lib_override_library_id_unused_cleanup_loop(_, _, _)
lib_override_library_id_unused_cleanup_loop(bm, local, i) ==
  IF i = 0 THEN bm
  ELSE lib_override_library_id_unused_cleanup_loop(
         IF IDOVERRIDE_LIBRARY_TAG_UNUSED \in bm.override_library[local].properties[i].tag
         THEN BKE_lib_override_library_property_delete(bm, local, i)
         ELSE [bm EXCEPT !.override_library[local].properties[i].operations =
                           lib_override_library_operations_used(@)],
         local, i - 1)

BKE_lib_override_library_id_unused_cleanup(bm, local) ==
  IF ID_IS_OVERRIDE_LIBRARY_REAL(bm, local)
  THEN lib_override_library_id_unused_cleanup_loop(
         bm, local, Len(bm.override_library[local].properties))
  ELSE bm

RECURSIVE lib_override_library_main_unused_cleanup_loop(_, _)
lib_override_library_main_unused_cleanup_loop(bm, ids) ==
  IF ids = <<>> THEN bm
  ELSE lib_override_library_main_unused_cleanup_loop(
         IF ID_IS_OVERRIDE_LIBRARY(bm, Head(ids))
         THEN BKE_lib_override_library_id_unused_cleanup(bm, Head(ids))
         ELSE bm,
         Tail(ids))

BKE_lib_override_library_main_unused_cleanup(bm) ==
  lib_override_library_main_unused_cleanup_loop(bm, MainOrder(bm))

(***************************************************************************)
(* RNA_struct_override_matches, the structural comparator.                 *)
(***************************************************************************)
RNA_OVERRIDE_COMPARE_IGNORE_NON_OVERRIDABLE == "IGNORE_NON_OVERRIDABLE"
RNA_OVERRIDE_COMPARE_IGNORE_OVERRIDDEN == "IGNORE_OVERRIDDEN"
RNA_OVERRIDE_COMPARE_CREATE == "CREATE"
RNA_OVERRIDE_COMPARE_RESTORE == "RESTORE"
RNA_OVERRIDE_MATCH_RESULT_CREATED == "CREATED"
RNA_OVERRIDE_MATCH_RESULT_RESTORED == "RESTORED"

\* The position of the property with the given address, 0 when the list
\* holds none.
PropertyIndex(properties, ptr) ==
  IF \E i \in DOMAIN properties : properties[i].ptr = ptr
  THEN CHOOSE i \in DOMAIN properties : properties[i].ptr = ptr
  ELSE 0

\* The property of local at the given address is in use.
rna_property_override_used(bm, local, ptr) ==
  IF PropertyIndex(bm.override_library[local].properties, ptr) = 0 THEN bm
  ELSE [bm EXCEPT
          !.override_library[local].properties[
             PropertyIndex(bm.override_library[local].properties, ptr)] =
            BKE_lib_override_library_operations_tag(@, IDOVERRIDE_LIBRARY_TAG_UNUSED, FALSE)]

\* A rule is made for a property that differs: the property is recorded, and
\* a new property gets the operation that replaces the value.
rna_property_override_create(bm, local, rna_path) ==
  With(BKE_lib_override_library_property_get(bm, local, rna_path), LAMBDA g :
    IF g.created /\ PropertyIndex(g.bm.override_library[local].properties, g.ret) # 0
    THEN [bm |-> [g.bm EXCEPT
                    !.override_library[local].properties[
                       PropertyIndex(g.bm.override_library[local].properties, g.ret)
                    ].operations =
                      BKE_lib_override_library_property_operation_get(
                        @, IDOVERRIDE_LIBRARY_OP_REPLACE, NoName, NoName, -1, -1, TRUE
                      ).operations],
          match |-> FALSE, report |-> {RNA_OVERRIDE_MATCH_RESULT_CREATED}]
    ELSE [bm |-> rna_property_override_used(g.bm, local, g.ret),
          match |-> FALSE, report |-> {}])

\* The comparison of one property of local with the one of reference.
rna_property_override_diff(bm, local, reference, rna_path, flags) ==
  IF ~RNA_property_overridable(rna_path)
     /\ RNA_OVERRIDE_COMPARE_IGNORE_NON_OVERRIDABLE \in flags
  THEN [bm |-> bm, match |-> TRUE, report |-> {}]
  ELSE With(BKE_lib_override_library_property_find(bm, local, rna_path), LAMBDA f :
    IF f.ret # NULL /\ RNA_OVERRIDE_COMPARE_IGNORE_OVERRIDDEN \in flags
    THEN [bm |-> rna_property_override_used(f.bm, local, f.ret),
          match |-> TRUE, report |-> {}]
    ELSE IF RNA_property_get(bm, local, rna_path) = RNA_property_get(bm, reference, rna_path)
    THEN [bm |-> f.bm, match |-> TRUE, report |-> {}]
    ELSE IF RNA_property_overridable(rna_path) /\ RNA_OVERRIDE_COMPARE_CREATE \in flags
    THEN rna_property_override_create(f.bm, local, rna_path)
    ELSE IF f.ret = NULL /\ RNA_OVERRIDE_COMPARE_RESTORE \in flags
    THEN [bm |-> RNA_property_set(f.bm, local, rna_path,
                                  RNA_property_get(bm, reference, rna_path)),
          match |-> TRUE, report |-> {RNA_OVERRIDE_MATCH_RESULT_RESTORED}]
    ELSE [bm |-> f.bm, match |-> FALSE, report |-> {}])

\* RNA_struct_override_matches(bmain, local, reference, NULL, 0, override,
\* flags, &report_flags): the properties are compared one after the other.
RECURSIVE rna_struct_override_matches_loop(_, _, _, _, _)
rna_struct_override_matches_loop(r, local, reference, rna_paths, flags) ==
  IF rna_paths = <<>> THEN r
  ELSE With(rna_property_override_diff(r.bm, local, reference, Head(rna_paths), flags),
            LAMBDA d :
         rna_struct_override_matches_loop(
           [bm |-> d.bm, match |-> r.match /\ d.match, report |-> r.report \cup d.report],
           local, reference, Tail(rna_paths), flags))

RNA_struct_override_matches(bm, local, reference, flags) ==
  rna_struct_override_matches_loop([bm |-> bm, match |-> TRUE, report |-> {}],
                                   local, reference, RNAPaths, flags)

(***************************************************************************)
(* BKE_lib_override_library_operations_create                              *)
(***************************************************************************)
\* BKE_pose_ensure(bmain, ob, ob->data, true): the pose is rebuilt when the
\* object has none or when it is flagged to be recomputed.
BKE_pose_needs_rebuild(bm, ob) == bm.pose[ob] \in {POSE_NULL, POSE_RECALC}

BKE_pose_rebuild(bm, ob) == [bm EXCEPT !.pose[ob] = POSE_VALID]

BKE_pose_ensure(bm, ob) ==
  IF BKE_pose_needs_rebuild(bm, ob) THEN BKE_pose_rebuild(bm, ob) ELSE bm

\* Whether operations_create ensures the poses of local and of its reference.
lib_override_library_is_armature_object(bm, id) ==
  bm.code[id] = "OB" /\ bm.ob_type[id] = OB_ARMATURE

\* The comparison of operations_create, after the poses were ensured.
lib_override_library_operations_create_compare(bm, local) ==
  With(RNA_struct_override_matches(
         bm, local, bm.override_library[local].reference,
         {RNA_OVERRIDE_COMPARE_CREATE, RNA_OVERRIDE_COMPARE_RESTORE}), LAMBDA m :
    [bm |-> m.bm, ret |-> RNA_OVERRIDE_MATCH_RESULT_CREATED \in m.report,
     report |-> m.report])

\* A template is compared like any other override data.
BKE_lib_override_library_operations_create_mutant(bm, local) ==
  [bm |-> BKE_lib_override_library_property_get(bm, local, "b").bm, ret |-> TRUE,
   report |-> {RNA_OVERRIDE_MATCH_RESULT_CREATED}]

BKE_lib_override_library_operations_create(bm, local) ==
  IF bm.override_library[local].reference = NULL
  THEN [bm |-> bm, ret |-> FALSE, report |-> {}]
  ELSE IF ID_MISSING(bm, bm.override_library[local].reference)
  THEN [bm |-> bm, ret |-> FALSE, report |-> {}]
  ELSE lib_override_library_operations_create_compare(
         IF lib_override_library_is_armature_object(bm, local)
         THEN BKE_pose_ensure(BKE_pose_ensure(bm, local),
                              bm.override_library[local].reference)
         ELSE bm,
         local)

(***************************************************************************)
(* BKE_lib_override_library_update                                         *)
(***************************************************************************)
\* BKE_lib_id_swap: the two IDs exchange their data (values, pointers, pose);
\* each keeps its ID header, its override data included.
BKE_lib_id_swap(bm, id_a, id_b) ==
  [bm EXCEPT
     !.values = [@ EXCEPT ![id_a] = bm.values[id_b], ![id_b] = bm.values[id_a]],
     !.ob_type = [@ EXCEPT ![id_a] = bm.ob_type[id_b], ![id_b] = bm.ob_type[id_a]],
     !.pose = [@ EXCEPT ![id_a] = bm.pose[id_b], ![id_b] = bm.pose[id_a]],
     !.key = [@ EXCEPT ![id_a] = bm.key[id_b], ![id_b] = bm.key[id_a]],
     !.links = {IF l.from = id_a THEN Link(id_b, l.to, l.cb)
                ELSE IF l.from = id_b THEN Link(id_a, l.to, l.cb)
                ELSE l : l \in @}]

\* The swap of the shape keys of local and of tmp_id, after which each ID
\* has its own shape key again.
lib_override_library_update_key_swap(bm, local, tmp_id, local_key, tmp_key) ==
  IF local_key # NULL /\ tmp_key # NULL
  THEN [BKE_lib_id_swap(bm, local_key, tmp_key) EXCEPT
          !.flag[tmp_key] = @ \cup (bm.flag[local_key] \cap {LIB_EMBEDDED_DATA_LIB_OVERRIDE}),
          !.key = [@ EXCEPT ![local] = local_key, ![tmp_id] = tmp_key],
          !.links = {IF l.from = local_key /\ l.cb = IDWALK_CB_LOOPBACK
                     THEN Link(local_key, local, l.cb)
                     ELSE IF l.from = tmp_key /\ l.cb = IDWALK_CB_LOOPBACK
                     THEN Link(tmp_key, tmp_id, l.cb)
                     ELSE l : l \in @}]
  ELSE bm

\* The poses of the objects that use the armature local are flagged.
lib_override_library_update_pose_recalc(bm, local) ==
  IF bm.code[local] = "AR"
  THEN [bm EXCEPT !.pose = [ob \in IDs |->
          IF ob \in bm.ids /\ bm.code[ob] = "OB" /\ @[ob] # POSE_NULL
             /\ Link(ob, local, IDWALK_CB_USER) \in bm.links
          THEN POSE_RECALC ELSE @[ob]]]
  ELSE bm

\* The storage of local is freed.
lib_override_library_update_storage_free(bm, local) ==
  IF bm.override_library[local].storage # NULL
  THEN [BKE_id_delete(bm, bm.override_library[local].storage) EXCEPT
          !.override_library[local].storage = NULL]
  ELSE bm

lib_override_library_update_swap_mutant(bm, local, tmp_id) == bm

\* The contents of local and of tmp_id are swapped, their shape keys with
\* them.
lib_override_library_update_swap(bm, local, tmp_id) ==
  lib_override_library_update_key_swap(
    BKE_lib_id_swap(bm, local, tmp_id), local, tmp_id, bm.key[local], bm.key[tmp_id])

lib_override_library_update_apply_mutant(bm, local, tmp_id) ==
  [lib_override_library_update_swap(
     RNA_struct_override_apply(
       [bm EXCEPT !.name[tmp_id] = bm.name[local], !.log = <<>>], tmp_id, local, local),
     local, tmp_id)
     EXCEPT !.tag[local] = @ \cup {LIB_TAG_OVERRIDE_LIBRARY_REFOK}, !.log = <<>>]

\* The update proper, on the copy tmp_id of the reference.
lib_override_library_update_apply(bm, local, tmp_id) ==
  [lib_override_library_update_storage_free(
     lib_override_library_update_pose_recalc(
       BKE_id_delete(
         lib_override_library_update_swap(
           RNA_struct_override_apply(
             [bm EXCEPT
                !.name[tmp_id] = bm.name[local],
                !.flag[IF bm.key[local] # NULL /\ bm.key[tmp_id] # NULL
                       THEN bm.key[tmp_id] ELSE tmp_id] =
                   IF bm.key[local] # NULL /\ bm.key[tmp_id] # NULL
                   THEN @ \cup (bm.flag[bm.key[local]] \cap {LIB_EMBEDDED_DATA_LIB_OVERRIDE})
                   ELSE @,
                !.log = <<>>],
             tmp_id, local, local),
           local, tmp_id),
         tmp_id),
       local),
     local)
     EXCEPT !.tag[local] = @ \cup {LIB_TAG_OVERRIDE_LIBRARY_REFOK}, !.log = <<>>]

BKE_lib_override_library_update_mutant(bm, local, do_fail) ==
  IF ~ID_IS_OVERRIDE_LIBRARY_REAL(bm, local) \/ do_fail THEN bm
  ELSE With(BKE_id_copy(bm, bm.override_library[local].reference), LAMBDA c :
         lib_override_library_update_apply(c.bm, local, c.ret))

\* do_fail: BKE_id_copy of a reference returns NULL.
RECURSIVE BKE_lib_override_library_update(_, _, _)
BKE_lib_override_library_update(bm, local, do_fail) ==
  IF ~ID_IS_OVERRIDE_LIBRARY_REAL(bm, local) THEN bm
  ELSE IF ID_MISSING(bm, bm.override_library[local].reference) THEN bm
  ELSE With(IF bm.override_library[bm.override_library[local].reference].has
               /\ LIB_TAG_OVERRIDE_LIBRARY_REFOK
                    \notin bm.tag[bm.override_library[local].reference]
            THEN BKE_lib_override_library_update(
                   bm, bm.override_library[local].reference, do_fail)
            ELSE bm,
            LAMBDA bm1 :
         IF do_fail THEN bm1
         ELSE With(BKE_id_copy(bm1, bm1.override_library[local].reference), LAMBDA c :
                lib_override_library_update_apply(c.bm, local, c.ret)))

(***************************************************************************)
(* BKE_lib_override_library_operations_store_start                         *)
(***************************************************************************)
BKE_lib_override_library_operations_store_start(bm, local) ==
  IF ID_IS_OVERRIDE_LIBRARY_TEMPLATE(bm, local) \/ ID_IS_OVERRIDE_LIBRARY_VIRTUAL(bm, local)
  THEN [bm |-> bm, ret |-> NULL]
  ELSE [bm |-> [BKE_lib_override_library_operations_create(bm, local).bm
                  EXCEPT !.override_library[local].storage = NULL],
        ret |-> NULL]

(***************************************************************************)
(* SpecStore: the override record store of one link.  A is a local object  *)
(* without override data, B a local override of the linked object R with   *)
(* one property, T a linked override template with one property, L a local *)
(* override template as init(L, NULL) makes it; R may be an override of T. *)
(* The calls are made on A; B, R, T and L are sources.                     *)
(***************************************************************************)
StoreOperation ==
  [operation |-> IDOVERRIDE_LIBRARY_OP_REPLACE,
   subitem_reference_name |-> NoName,
   subitem_local_name |-> NoName,
   subitem_reference_index |-> -1,
   subitem_local_index |-> -1,
   flag |-> {}, tag |-> {}]

StoreProperty(rna_path, ptr) ==
  [rna_path |-> rna_path, ptr |-> ptr, tag |-> {}, operations |-> <<StoreOperation>>]

StoreMain(r_override) ==
  LET bm4 == BKE_lib_override_library_init(
               AddID(AddID(AddID(AddID(AddID(EmptyMain, NULL, "OB", "A"), NULL, "OB", "B"),
                                 1, "OB", "R"), 2, "OB", "T"), NULL, "OB", "L"),
               5, NULL)
      bm5 == [bm4 EXCEPT
                !.override_library[2] =
                   [NoLink EXCEPT !.has = TRUE, !.reference = 3,
                                  !.properties = <<StoreProperty("b", 1)>>],
                !.us[3] = 1,
                !.override_library[4] =
                   [NoLink EXCEPT !.has = TRUE,
                                  !.properties = <<StoreProperty("a", 2)>>]]
  IN IF r_override
     THEN [bm5 EXCEPT !.override_library[3] =
                         [NoLink EXCEPT !.has = TRUE, !.reference = 4],
                      !.us[4] = 1,
                      !.tag[3] = {LIB_TAG_OVERRIDE_LIBRARY_REFOK}]
     ELSE bm5

StoreTargets == {1}

InitStore ==
  /\ \E r_override \in BOOLEAN : bmain = StoreMain(r_override)
  /\ bmain_old = bmain
  /\ call = NoCall

\* init(local, reference): reference is NULL (a template is made) or linked
\* data.  On a local that still has override data BLI_assert fails: ub_crash
\* is the build with assertions, which aborts; the other build goes on and
\* overwrites the data.  The call keeps the name of the call before it.
StoreInit(local_id, reference_id, ub_crash) ==
  /\ ~call.crashed
  /\ local_id \in LocalIDs(bmain)
  /\ ub_crash => bmain.override_library[local_id].has
  /\ reference_id = NULL \/ reference_id \in LinkedIDs(bmain)
  /\ bmain' = IF ub_crash THEN bmain
              ELSE BKE_lib_override_library_init(bmain, local_id, reference_id)
  /\ call' = [Call("init", <<local_id, reference_id, call.fn>>,
                   IF ub_crash THEN NULL ELSE local_id)
              EXCEPT !.crashed = ub_crash]
  /\ UNCHANGED bmain_old

StoreCopy(dst_id, src_id, do_full_copy) ==
  /\ ~call.crashed
  /\ dst_id \in LocalIDs(bmain)
  /\ src_id \in bmain.ids \ {dst_id}
  /\ bmain' = BKE_lib_override_library_copy(bmain, dst_id, src_id, do_full_copy)
  /\ call' = Call("copy", <<dst_id, src_id, do_full_copy>>, NULL)
  /\ UNCHANGED bmain_old

StoreClear(id, do_id_user) ==
  /\ ~call.crashed
  /\ bmain.override_library[id].has
  /\ bmain' = BKE_lib_override_library_clear(bmain, id, do_id_user)
  /\ call' = Call("clear", <<id, do_id_user>>, NULL)
  /\ UNCHANGED bmain_old

StoreFree(id, do_id_user) ==
  /\ ~call.crashed
  /\ bmain.override_library[id].has
  /\ bmain' = BKE_lib_override_library_free(bmain, id, do_id_user)
  /\ call' = Call("free", <<id, do_id_user>>, NULL)
  /\ UNCHANGED bmain_old

StorePropertyFind(id, rna_path) ==
  /\ ~call.crashed
  /\ bmain.override_library[id].has
  /\ LET f == BKE_lib_override_library_property_find(bmain, id, rna_path)
     IN /\ bmain' = f.bm
        /\ call' = Call("property_find", <<id, rna_path>>, f.ret)
  /\ UNCHANGED bmain_old

StorePropertyGet(id, rna_path) ==
  /\ ~call.crashed
  /\ bmain.override_library[id].has
  /\ LET g == BKE_lib_override_library_property_get(bmain, id, rna_path)
     IN /\ Len(g.bm.override_library[id].properties) <= MaxProps
        /\ bmain' = g.bm
        /\ call' = Call("property_get", <<id, rna_path, g.created>>, g.ret)
  /\ UNCHANGED bmain_old

StorePropertyDelete(id, i) ==
  /\ ~call.crashed
  /\ i \in DOMAIN bmain.override_library[id].properties
  /\ bmain' = BKE_lib_override_library_property_delete(bmain, id, i)
  /\ call' = Call("property_delete", <<id, i>>, NULL)
  /\ UNCHANGED bmain_old

NextStore ==
  \/ \E local_id \in StoreTargets, reference_id \in {NULL} \cup IDs, ub_crash \in BOOLEAN :
       StoreInit(local_id, reference_id, ub_crash)
  \/ \E dst_id \in StoreTargets, src_id \in IDs, do_full_copy \in BOOLEAN :
       StoreCopy(dst_id, src_id, do_full_copy)
  \/ \E id \in StoreTargets, do_id_user \in BOOLEAN : StoreClear(id, do_id_user)
  \/ \E id \in StoreTargets, do_id_user \in BOOLEAN : StoreFree(id, do_id_user)
  \/ \E id \in StoreTargets, rna_path \in Paths : StorePropertyFind(id, rna_path)
  \/ \E id \in StoreTargets, rna_path \in Paths : StorePropertyGet(id, rna_path)
  \/ \E id \in StoreTargets, i \in 1..MaxProps : StorePropertyDelete(id, i)

SpecStore == InitStore /\ [][NextStore]_vars

\* The record store without the calls of property_find.
NextStoreMutators ==
  \/ \E local_id \in StoreTargets, reference_id \in {NULL} \cup IDs, ub_crash \in BOOLEAN :
       StoreInit(local_id, reference_id, ub_crash)
  \/ \E dst_id \in StoreTargets, src_id \in IDs, do_full_copy \in BOOLEAN :
       StoreCopy(dst_id, src_id, do_full_copy)
  \/ \E id \in StoreTargets, do_id_user \in BOOLEAN : StoreClear(id, do_id_user)
  \/ \E id \in StoreTargets, do_id_user \in BOOLEAN : StoreFree(id, do_id_user)
  \/ \E id \in StoreTargets, rna_path \in Paths : StorePropertyGet(id, rna_path)
  \/ \E id \in StoreTargets, i \in 1..MaxProps : StorePropertyDelete(id, i)

SpecStoreMutators == InitStore /\ [][NextStoreMutators]_vars

(***************************************************************************)
(* Properties of the record store.                                         *)
(***************************************************************************)
PathsOf(properties) == {properties[i].rna_path : i \in DOMAIN properties}

\* C3: after the call property_find(link, path), a property is returned if
\* and only if the link's collection holds a property with that path, and the
\* property returned is a property of the collection with that path.
C3_FindMatchesCollection ==
  call.fn = "property_find" =>
    LET properties == bmain.override_library[call.args[1]].properties
    IN /\ (call.ret # NULL) <=> (call.args[2] \in PathsOf(properties))
       /\ call.ret # NULL =>
            \E i \in DOMAIN properties :
              properties[i].ptr = call.ret /\ properties[i].rna_path = call.args[2]

\* C4: no override holds two properties with the same path.
C4_PathsUnique ==
  \A id \in bmain.ids :
    LET properties == bmain.override_library[id].properties
    IN \A i, j \in DOMAIN properties :
         properties[i].rna_path = properties[j].rna_path => i = j

\* C10: an ID whose override data has a reference lives in another library
\* than that reference.
C10_ReferenceInOtherLibrary ==
  \A id \in bmain.ids :
    ID_IS_OVERRIDE_LIBRARY_REAL(bmain, id) =>
      bmain.lib[bmain.override_library[id].reference] # bmain.lib[id]

\* The properties and their operations as values, without their addresses.
PropertiesDeep(properties) ==
  [i \in DOMAIN properties |->
     [rna_path |-> properties[i].rna_path, operations |-> properties[i].operations]]

\* The sources of which reference_id is the reference: overrides, no templates.
StoreSourcesOf(bm, reference_id) ==
  {src_id \in bm.ids : ID_IS_OVERRIDE_LIBRARY_REAL(bm, src_id)
                          /\ bm.override_library[src_id].reference = reference_id}

StoreClearThenInit ==
  /\ call.fn = "init" /\ ~call.crashed
  /\ call.args[3] = "clear" /\ StoreTargets = {call.args[1]}

\* C15: when a link was cleared and then initialised against the reference of
\* a source that is an override and no template, its properties and their
\* operations are deeply equal to those a deep copy from that source gives it.
C15_ClearInitEqualsDeepCopy ==
  StoreClearThenInit =>
    \A src_id \in StoreSourcesOf(bmain, call.args[2]) \ {call.args[1]} :
      PropertiesDeep(bmain.override_library[call.args[1]].properties)
        = PropertiesDeep(BKE_lib_override_library_copy(bmain, call.args[1], src_id, TRUE)
                           .override_library[call.args[1]].properties)

(***************************************************************************)
(* SpecOps: the operations of one override property.  The registry holds   *)
(* one local ID, a template with the single property "a"; the calls find,  *)
(* get and delete operations of that property.  A sub-item is given by     *)
(* its names or by its indices.                                            *)
(***************************************************************************)
OpsID == EmptyMain.next_id

OpsMain ==
  BKE_lib_override_library_property_get(
    BKE_lib_override_library_init(AddID(EmptyMain, NULL, "OB", "A"), OpsID, NULL),
    OpsID, "a").bm

OpsOperations(bm) == bm.override_library[OpsID].properties[1].operations

SubItem(refname, locname, refindex, locindex) ==
  [refname |-> refname, locname |-> locname, refindex |-> refindex, locindex |-> locindex]

SubItems ==
  {SubItem(refname, locname, -1, -1) :
     refname \in {NoName, "Leg", "Arm"}, locname \in {NoName, "LegA", "LegB"}}
  \cup {SubItem(NoName, NoName, refindex, locindex) :
     refindex \in {-1, 0}, locindex \in {-1, 0}}

InitOps ==
  /\ bmain = OpsMain
  /\ bmain_old = OpsMain
  /\ call = NoCall

OpsFind(si, strict) ==
  /\ LET f == BKE_lib_override_library_property_operation_find(
                OpsOperations(bmain), si.refname, si.locname, si.refindex, si.locindex,
                strict)
     IN call' = Call("operation_find", <<si, strict>>, f)
  /\ UNCHANGED <<bmain, bmain_old>>

OpsGet(si, strict) ==
  /\ LET g == BKE_lib_override_library_property_operation_get(
                OpsOperations(bmain), IDOVERRIDE_LIBRARY_OP_REPLACE,
                si.refname, si.locname, si.refindex, si.locindex, strict)
     IN /\ Len(g.operations) <= MaxOps
        /\ bmain' = [bmain EXCEPT
                       !.override_library[OpsID].properties[1].operations = g.operations]
        /\ call' = Call("operation_get", <<si, strict>>,
                        [ret |-> g.ret, r_strict |-> g.r_strict, r_created |-> g.r_created])
  /\ UNCHANGED bmain_old

OpsDelete(i) ==
  /\ i \in DOMAIN OpsOperations(bmain)
  /\ bmain' = [bmain EXCEPT
                 !.override_library[OpsID].properties[1].operations =
                    BKE_lib_override_library_property_operation_delete(@, i)]
  /\ call' = Call("operation_delete", <<i>>, NULL)
  /\ UNCHANGED bmain_old

NextOps ==
  \/ \E si \in SubItems, strict \in BOOLEAN : OpsFind(si, strict)
  \/ \E si \in SubItems, strict \in BOOLEAN : OpsGet(si, strict)
  \/ \E i \in 1..MaxOps : OpsDelete(i)

SpecOps == InitOps /\ [][NextOps]_vars

(***************************************************************************)
(* Properties of the operations of a property.                             *)
(***************************************************************************)
\* The operation at position i was recorded with the two names.
OpsRecorded(i, locname, refname) ==
  /\ i \in DOMAIN OpsOperations(bmain)
  /\ OpsOperations(bmain)[i].subitem_local_name = locname
  /\ OpsOperations(bmain)[i].subitem_reference_name = refname

\* The last call was operation_find with the two names.
OpsQueried(locname, refname) ==
  /\ call.fn = "operation_find"
  /\ call.args[1].locname = locname
  /\ call.args[1].refname = refname

\* C5: while the property holds an operation recorded with local name "LegA"
\* and reference name "Leg", operation_find queried with ("LegA", "Leg")
\* returns such an operation, and queried with ("LegB", "Leg") it does not.
C5_FoundByBothNames ==
  (\E i \in 1..MaxOps : OpsRecorded(i, "LegA", "Leg")) =>
    /\ OpsQueried("LegA", "Leg") => OpsRecorded(call.ret.ret, "LegA", "Leg")
    /\ OpsQueried("LegB", "Leg") => ~OpsRecorded(call.ret.ret, "LegA", "Leg")

\* C6 as the specification states it: while the property holds an operation
\* recorded with local name "LegA" and reference name "Leg", operation_find
\* queried with local name "LegA" and no reference name returns it.
C6_FoundByLocalNameAlone ==
  (\E i \in 1..MaxOps : OpsRecorded(i, "LegA", "Leg")) /\ OpsQueried("LegA", NoName)
    => OpsRecorded(call.ret.ret, "LegA", "Leg")

\* C6 amended: operation_find queried with a local name and no reference
\* name returns only an operation recorded with that local name and without
\* reference name, hence never the operation recorded as ("LegA", "Leg").
C6_LocalNameAloneNeedsNoReferenceName ==
  \A locname \in {"LegA", "LegB"} :
    OpsQueried(locname, NoName) /\ call.ret.ret # NULL
      => OpsRecorded(call.ret.ret, locname, NoName)

\* C6 witness: the query ("LegA", null) answered with an operation while the
\* property also holds the operation recorded as ("LegA", "Leg").
C6_Witness ==
  /\ OpsQueried("LegA", NoName)
  /\ call.ret.ret # NULL
  /\ \E i \in 1..MaxOps : OpsRecorded(i, "LegA", "Leg")

\* The last call was operation_find without names.
OpsQueriedByIndex ==
  /\ call.fn = "operation_find"
  /\ call.args[1].locname = NoName
  /\ call.args[1].refname = NoName

\* The operations of the property that have the local index.
OpsWithLocalIndex(locindex) ==
  {i \in DOMAIN OpsOperations(bmain) :
     OpsOperations(bmain)[i].subitem_local_index = locindex}

\* C31: operation_find queried without names for a local index other than
\* -1 that no operation has, while the property holds an operation recorded
\* with local index -1: when strict is false it returns such an operation
\* and leaves false in *r_strict, when strict is true it returns NULL.
C31_WildcardFallback ==
  (/\ OpsQueriedByIndex
   /\ call.args[1].locindex # -1
   /\ OpsWithLocalIndex(call.args[1].locindex) = {}
   /\ OpsWithLocalIndex(-1) # {})
  => IF call.args[2]
     THEN call.ret.ret = NULL
     ELSE /\ call.ret.ret \in OpsWithLocalIndex(-1)
          /\ call.ret.r_strict = FALSE

\* The operations of the property that have both indices.
OpsWithIndices(refindex, locindex) ==
  {i \in OpsWithLocalIndex(locindex) :
     OpsOperations(bmain)[i].subitem_reference_index = refindex}

\* C32: operation_find queried without names, while the property holds an
\* operation that has the local index and the reference index of the query,
\* returns an operation that has both.
C32_FindCompleteByIndex ==
  (/\ OpsQueriedByIndex
   /\ OpsWithIndices(call.args[1].refindex, call.args[1].locindex) # {})
  => call.ret.ret \in OpsWithIndices(call.args[1].refindex, call.args[1].locindex)

\* What operation_get would return when called again with the arguments of
\* the last call.
OpsGetAgain ==
  BKE_lib_override_library_property_operation_get(
    OpsOperations(bmain), IDOVERRIDE_LIBRARY_OP_REPLACE,
    call.args[1].refname, call.args[1].locname, call.args[1].refindex,
    call.args[1].locindex, call.args[2])

\* C33: when operation_get has returned, a second call with the same
\* arguments returns the operation the first call returned, creates none
\* and leaves the list of operations as it is.
C33_GetIdempotent ==
  call.fn = "operation_get" =>
    With(OpsGetAgain, LAMBDA g :
      /\ g.ret = call.ret.ret
      /\ g.r_created = FALSE
      /\ g.operations = OpsOperations(bmain))

(***************************************************************************)
(* SpecGraph: the hierarchy functions.  Library 1 holds the collection C   *)
(* with the armature object O and its bone shape B, the mesh M of O and    *)
(* the shape key K of M; library 2 holds the object X, which O uses.  The  *)
(* file itself holds the master collection S of the scene with the objects *)
(* A, which uses O, and P.  Four things vary: whether M uses O, whether S  *)
(* instantiates C, whether P is a proxy of O, and whether the file was     *)
(* saved after the hierarchy of C had been overridden.                     *)
(***************************************************************************)
\* The IDs AddID gives to the data-blocks of the file, in reading order.
GraphID == [C |-> 1, O |-> 2, B |-> 3, M |-> 4, K |-> 5, X |-> 6, S |-> 7, A |-> 8, P |-> 9]
GraphC == GraphID.C
GraphO == GraphID.O
GraphB == GraphID.B
GraphM == GraphID.M
GraphK == GraphID.K
GraphX == GraphID.X
GraphS == GraphID.S
GraphA == GraphID.A
GraphP == GraphID.P

GraphLinkedMain(m_uses_o, s_has_c, with_proxy) ==
  LET bm == AddID(AddID(AddID(AddID(AddID(AddID(AddID(AddID(AddID(EmptyMain,
              1, "GR", "C"), 1, "OB", "O"), 1, "OB", "B"), 1, "ME", "M"), 1, "KE", "K"),
              2, "OB", "X"), NULL, "GR", "S"), NULL, "OB", "A"), NULL, "OB", "P")
  IN [bm EXCEPT
        !.key[GraphM] = GraphK,
        !.us = [e \in IDs |-> IF e \in bm.ids THEN 1 ELSE 0],
        !.links =
           {Link(GraphC, GraphO, IDWALK_CB_USER), Link(GraphC, GraphB, IDWALK_CB_USER),
            Link(GraphO, GraphB, PoseCustom), Link(GraphO, GraphM, IDWALK_CB_USER),
            Link(GraphO, GraphX, IDWALK_CB_USER), Link(GraphK, GraphM, IDWALK_CB_LOOPBACK),
            Link(GraphS, GraphA, IDWALK_CB_USER), Link(GraphS, GraphP, IDWALK_CB_USER),
            Link(GraphA, GraphO, IDWALK_CB_USER)}
           \cup (IF m_uses_o THEN {Link(GraphM, GraphO, IDWALK_CB_USER)} ELSE {})
           \cup (IF s_has_c THEN {Link(GraphS, GraphC, IDWALK_CB_USER)} ELSE {})
           \cup (IF with_proxy THEN {Link(GraphP, GraphO, ProxyLink)} ELSE {})]

GraphMain(m_uses_o, s_has_c, with_proxy, with_overrides) ==
  IF with_overrides
  THEN BKE_lib_override_library_create(
         GraphLinkedMain(m_uses_o, s_has_c, with_proxy), GraphS, GraphC, NULL, 0, FALSE).bm
  ELSE GraphLinkedMain(m_uses_o, s_has_c, with_proxy)

InitGraph ==
  /\ \E m_uses_o \in BOOLEAN, s_has_c \in BOOLEAN, with_proxy \in BOOLEAN,
        with_overrides \in BOOLEAN :
       bmain = GraphMain(m_uses_o, s_has_c, with_proxy, with_overrides)
  /\ bmain_old = bmain
  /\ call = NoCall

\* The IDs BKE_lib_override_library_create_from_tag and the post-processing
\* may allocate on a registry tagged as bm is.
GraphNeed(bm) ==
  LET todo_ids == lib_override_library_todo_ids(bm)
      RECURSIVE Sum(_)
      Sum(ids) == IF ids = <<>> THEN 0
                  ELSE (IF bm.newid[Head(ids)] # NULL THEN 0
                        ELSE IF bm.key[Head(ids)] # NULL THEN 2 ELSE 1)
                       + (IF bm.code[Head(ids)] = "OB" THEN 1 ELSE 0)
                       + Sum(Tail(ids))
  IN Sum(todo_ids)

GraphRoom(bm) == bm.next_id + GraphNeed(bm) <= MaxIDs + 1

\* What the caller of a hierarchy function does first: it starts from clean
\* tags and counterparts, and tags the IDs of its choice.
GraphCallerTags(bm, tagged) ==
  [bm EXCEPT !.tag = [e \in IDs |-> IF e \in tagged THEN (@[e] \cup {LIB_TAG_DOIT})
                                    ELSE @[e] \ {LIB_TAG_DOIT}],
             !.newid = [e \in IDs |-> NULL]]

\* The positions of the work list at which the copy may fail (0: nowhere).
GraphFailPoints(bm) == 0..Len(lib_override_library_todo_ids(bm))

\* A hierarchy call may start: the process runs, and fewer than MaxCalls
\* hierarchy calls were made.
GraphMayCall == ~call.crashed /\ call.seq < MaxCalls

GraphCall(fn, args, ret, crashed) ==
  [fn |-> fn, args |-> args, ret |-> ret, crashed |-> crashed, seq |-> call.seq + 1]

GraphCreate(id_root) ==
  /\ GraphMayCall
  /\ id_root \in bmain.ids
  /\ ID_IS_OVERRIDABLE_LIBRARY(bmain, id_root)
  /\ GraphRoom(lib_override_library_create_do_tag(bmain, id_root))
  /\ \E fail_at \in GraphFailPoints(lib_override_library_create_do_tag(bmain, id_root)),
        ub_crash \in BOOLEAN :
       \E r \in {BKE_lib_override_library_create(bmain, GraphS, id_root, NULL,
                                                 fail_at, ub_crash)} :
          /\ bmain' = r.bm
          /\ call' = GraphCall("create", <<id_root>>,
                               [success |-> r.ret, mid |-> r.mid, copied |-> r.copied,
                                relations |-> lib_override_library_create_do_relations],
                               r.crashed)
  /\ bmain_old' = bmain

GraphProxyConvert(ob_proxy) ==
  /\ GraphMayCall
  /\ ob_proxy \in bmain.ids
  /\ ProxyOf(bmain, ob_proxy) # NULL
  /\ ~bmain.override_library[ob_proxy].has
  /\ \E tagged \in {lib_override_library_create_do_tag(
                       lib_override_library_proxy_convert_init(bmain, ob_proxy),
                       ProxyOf(bmain, ob_proxy))} :
        /\ GraphRoom(tagged)
        /\ \E fail_at \in GraphFailPoints(tagged), ub_crash \in BOOLEAN :
             \E r \in {BKE_lib_override_library_proxy_convert(bmain, GraphS, ob_proxy,
                                                              fail_at, ub_crash)} :
                /\ bmain' = r.bm
                /\ call' = GraphCall("proxy_convert", <<ob_proxy>>,
                                     [success |-> r.ret, mid |-> r.mid, copied |-> r.copied],
                               r.crashed)
  /\ bmain_old' = bmain

GraphResync(id_root) ==
  /\ GraphMayCall
  /\ id_root \in LocalIDs(bmain)
  /\ ID_IS_OVERRIDE_LIBRARY_REAL(bmain, id_root)
  /\ bmain.code[id_root] \in {"GR", "OB"}
  /\ GraphRoom(lib_override_library_resync_tag(bmain, id_root))
  /\ \E fail_at \in GraphFailPoints(lib_override_library_resync_tag(bmain, id_root)),
        ub_crash \in BOOLEAN :
       \E r \in {BKE_lib_override_library_resync(bmain, GraphS, id_root, fail_at,
                                                 ub_crash)} :
          /\ bmain' = r.bm
          /\ call' = GraphCall("resync", <<id_root>>,
                               [success |-> r.ret, mid |-> r.mid, map |-> r.map,
                                copied |-> r.copied, log |-> r.log],
                               r.crashed)
  /\ bmain_old' = bmain

\* A direct call of BKE_lib_override_library_create_from_tag by a caller that
\* tagged some linked IDs, and some local IDs to be remapped, and that cleans
\* up after a successful call as BKE_lib_override_library_create does.
GraphCreateFromTag(tagged) ==
  /\ GraphMayCall
  /\ tagged \subseteq bmain.ids
  /\ GraphRoom(GraphCallerTags(bmain, tagged))
  /\ \E fail_at \in GraphFailPoints(GraphCallerTags(bmain, tagged)), ub_crash \in BOOLEAN :
       \E r \in {BKE_lib_override_library_create_from_tag(
                   GraphCallerTags(bmain, tagged), fail_at, ub_crash)} :
          /\ bmain' = IF r.ret THEN lib_override_library_create_cleanup(r.bm) ELSE r.bm
          /\ call' = GraphCall("create_from_tag", <<tagged>>,
                               [success |-> r.ret, mid |-> r.bm, copied |-> r.copied],
                               r.crashed)
  /\ bmain_old' = GraphCallerTags(bmain, tagged)

\* A direct call of BKE_lib_override_library_create_from_id by a caller that
\* tagged the local IDs to be remapped, and that cleans up after the call.
GraphCreateFromId(reference_id, tagged, do_tagged_remap) ==
  /\ GraphMayCall
  /\ reference_id \in LinkedIDs(bmain)
  /\ BKE_idtype_idcode_is_linkable(bmain.code[reference_id])
  /\ tagged \subseteq LocalIDs(bmain)
  /\ bmain.next_id + 2 <= MaxIDs + 1
  /\ \E do_fail \in BOOLEAN, ub_crash \in BOOLEAN :
       \E r \in {BKE_lib_override_library_create_from_id(
                   GraphCallerTags(bmain, tagged), reference_id, do_tagged_remap,
                   do_fail, ub_crash)} :
          /\ bmain' = IF r.crashed THEN r.bm ELSE lib_override_library_create_cleanup(r.bm)
          /\ call' = GraphCall("create_from_id", <<reference_id, tagged, do_tagged_remap>>,
                               [success |-> r.ret # NULL, mid |-> r.bm, local_id |-> r.ret],
                               r.crashed)
  /\ bmain_old' = GraphCallerTags(bmain, tagged)

\* The user makes the local object A use a local override object instead of
\* the linked object it used.
GraphUserLink(ob) ==
  /\ ~call.crashed
  /\ call.fn # "user_link"
  /\ ob \in LocalIDs(bmain) \ {GraphA}
  /\ bmain.code[ob] = "OB"
  /\ ID_IS_OVERRIDE_LIBRARY_REAL(bmain, ob)
  /\ Link(GraphA, ob, IDWALK_CB_USER) \notin bmain.links
  /\ bmain' = [bmain EXCEPT !.links = {l \in @ : l.from # GraphA}
                                        \cup {Link(GraphA, ob, IDWALK_CB_USER)}]
  /\ call' = [call EXCEPT !.fn = "user_link", !.args = <<ob>>, !.ret = NULL]
  /\ UNCHANGED bmain_old

GraphTagSets == {{GraphO}, {GraphM}, {GraphO, GraphA}, {GraphC, GraphO, GraphM}}

NextGraph ==
  \/ \E id_root \in {GraphC, GraphO} : GraphCreate(id_root)
  \/ GraphProxyConvert(GraphP)
  \/ \E id_root \in IDs : GraphResync(id_root)
  \/ \E tagged \in GraphTagSets : GraphCreateFromTag(tagged)
  \/ \E reference_id \in {GraphO, GraphM}, tagged \in {{}, {GraphA}},
        do_tagged_remap \in BOOLEAN :
       GraphCreateFromId(reference_id, tagged, do_tagged_remap)
  \/ \E ob \in IDs : GraphUserLink(ob)

SpecGraph == InitGraph /\ [][NextGraph]_vars

(***************************************************************************)
(* Properties of the hierarchy functions.  A state right after a hierarchy *)
(* call holds the registry before the call (bmain_old), the registry as    *)
(* BKE_lib_override_library_create_from_tag left it (call.ret.mid, with    *)
(* the tags and the newid pointers the call worked with), and the registry *)
(* after the call (bmain).                                                 *)
(***************************************************************************)
\* The calls that run BKE_lib_override_library_create_from_tag.
GraphTagCalls == {"create_from_tag", "create", "proxy_convert", "resync"}

\* The calls that run lib_override_library_create_do.
GraphGroupCalls == {"create", "proxy_convert"}

GraphSucceeded(fns) == call.fn \in fns /\ call.ret.success /\ ~call.crashed

\* The IDs the last call created.
GraphCreated == bmain.ids \ bmain_old.ids

\* The linked references that had an old override and received a new one.
ResyncReplaced ==
  {r \in LinkedIDs(call.ret.mid) :
     /\ LIB_TAG_DOIT \in call.ret.mid.tag[r]
     /\ call.ret.mid.newid[r] # NULL
     /\ call.ret.map[r] # NULL}

\* No ID pointer of the registry points outside of it.
NoDanglingPointer(bm) ==
  /\ \A l \in bm.links : l.from \in bm.ids /\ l.to \in bm.ids
  /\ \A e \in bm.ids :
       /\ bm.key[e] # NULL => bm.key[e] \in bm.ids
       /\ bm.override_library[e].has /\ bm.override_library[e].reference # NULL
            => bm.override_library[e].reference \in bm.ids

\* C38: when the copy of the reference fails,
\* BKE_lib_override_library_create_from_id returns NULL and every ID of
\* Main has the ID pointers, the shape key and the override reference it
\* had before the call, with and without do_tagged_remap.
C38_FailedCreateFromIdKeepsPointers ==
  (call.fn = "create_from_id" /\ ~call.ret.success /\ ~call.crashed) =>
    /\ call.ret.local_id = NULL
    /\ bmain.ids = bmain_old.ids
    /\ bmain.links = bmain_old.links
    /\ bmain.key = bmain_old.key
    /\ \A e \in bmain.ids :
         bmain.override_library[e].reference = bmain_old.override_library[e].reference

\* C1: after a successful resync, for every reference that had an old
\* override and received a new one, the new override has the name the old
\* one had before the call, every remaining local ID that pointed to the old
\* override points to the new one, the old override is gone, and no ID
\* points to a deleted ID.
C1_ResyncKeepsIdentity ==
  GraphSucceeded({"resync"}) =>
    /\ \A r \in ResyncReplaced :
         LET old == call.ret.map[r]
             new == call.ret.mid.newid[r]
         IN /\ new \in LocalIDs(bmain)
            /\ bmain.name[new] = bmain_old.name[old]
            /\ old \notin bmain.ids
            /\ \A l \in bmain_old.links :
                 l.to = old /\ l.from \in LocalIDs(bmain)
                   => Link(l.from, new, l.cb) \in bmain.links
    /\ NoDanglingPointer(bmain)

\* C1 witness: a successful resync replaced an old override that a local ID
\* outside of the hierarchy pointed to.
C1_Witness ==
  /\ GraphSucceeded({"resync"})
  /\ \E r \in ResyncReplaced :
       \E l \in bmain_old.links :
         /\ l.to = call.ret.map[r]
         /\ l.from \in LocalIDs(bmain)
         /\ ~bmain_old.override_library[l.from].has

\* C2: when a copy of the work list fails, the call returns false and Main
\* holds exactly the IDs it held before the call.
C2_FailureRestoresRegistry ==
  call.fn \in GraphTagCalls /\ ~call.ret.copied =>
    /\ ~call.crashed
    /\ ~call.ret.success
    /\ bmain.ids = bmain_old.ids

\* The overrides the last call created for the reference.
NewOverridesOf(reference) ==
  {n \in GraphCreated : /\ bmain.override_library[n].has
                        /\ bmain.override_library[n].reference = reference}

\* The linked IDs the work list of the last call held.
GraphTagged ==
  {e \in LinkedIDs(call.ret.mid) :
     /\ LIB_TAG_DOIT \in call.ret.mid.tag[e]
     /\ BKE_idtype_idcode_is_linkable(call.ret.mid.code[e])}

\* The IDs of the work list whose newid the caller had set.
GraphPreset == {e \in GraphTagged : call.ret.mid.newid[e] \in bmain_old.ids}

\* C7 as the specification states it: after a successful group creation
\* every tagged linkable linked ID has exactly one newly created override,
\* and no override was created for an ID that was not tagged.
C7_OneNewOverridePerTagged ==
  GraphSucceeded(GraphGroupCalls) =>
    /\ \A e \in GraphTagged : Cardinality(NewOverridesOf(e)) = 1
    /\ \A n \in GraphCreated :
         bmain.override_library[n].has
           => bmain.override_library[n].reference \in GraphTagged

\* C7 amended: after a successful group creation every tagged linkable
\* linked ID whose newid the caller had not set has exactly one newly created
\* override; one whose newid the caller had set has none, and that newid is
\* its override; no override was created for an ID that was not tagged.
C7_OneOverridePerTaggedOrPreset ==
  GraphSucceeded(GraphGroupCalls) =>
    /\ \A e \in GraphTagged \ GraphPreset : Cardinality(NewOverridesOf(e)) = 1
    /\ \A e \in GraphPreset :
         /\ NewOverridesOf(e) = {}
         /\ bmain.override_library[call.ret.mid.newid[e]].has
         /\ bmain.override_library[call.ret.mid.newid[e]].reference = e
    /\ \A n \in GraphCreated :
         bmain.override_library[n].has
           => bmain.override_library[n].reference \in GraphTagged

\* C7 witness: a successful group creation whose work list held an ID with a
\* newid set by the caller and an ID without.
C7_Witness ==
  /\ GraphSucceeded(GraphGroupCalls)
  /\ GraphPreset # {}
  /\ GraphTagged \ GraphPreset # {}

\* C30: a tagged reference whose newid is set when
\* BKE_lib_override_library_create_from_tag starts (the proxied object,
\* whose newid BKE_lib_override_library_proxy_convert sets to the proxy) gets
\* no new override from the call, has the same newid when the call returns,
\* and that newid carries LIB_TAG_DOIT then.
C30_PresetCounterpartKept ==
  (call.fn = "proxy_convert" /\ ~call.crashed)
  => With(lib_override_library_proxy_convert_init(bmain_old, call.args[1]), LAMBDA bm :
       \A e \in {e \in bm.ids : bm.newid[e] # NULL} :
         /\ NewOverridesOf(e) = {}
         /\ call.ret.mid.newid[e] = bm.newid[e]
         /\ LIB_TAG_DOIT \in call.ret.mid.tag[bm.newid[e]])

\* C8: after a successful group creation, to every pointer (the override
\* reference aside) of a reference to a linked ID that received an override
\* in the call corresponds a pointer of its new override to that override,
\* and no new override points to a linked ID that received an override.
C8_NewOverridesUseNewOverrides ==
  GraphSucceeded(GraphGroupCalls) =>
    \A e \in GraphTagged \ GraphPreset :
      \A n \in NewOverridesOf(e) :
        /\ \A l \in bmain.links :
             l.from = n => ~(l.to \in GraphTagged /\ call.ret.mid.newid[l.to] # NULL)
        /\ \A l \in bmain_old.links :
             l.from = e /\ l.to \in GraphTagged /\ call.ret.mid.newid[l.to] # NULL
               => Link(n, call.ret.mid.newid[l.to], l.cb) \in bmain.links

\* C8 witness: a successful group creation made an override of a reference
\* that points to another reference overridden in the same call.
C8_Witness ==
  /\ GraphSucceeded(GraphGroupCalls)
  /\ \E e \in GraphTagged \ GraphPreset :
       /\ NewOverridesOf(e) # {}
       /\ \E l \in bmain_old.links :
            l.from = e /\ l.to \in GraphTagged /\ call.ret.mid.newid[l.to] # NULL

\* The local IDs that were in Main before the call, are in it after
\* BKE_lib_override_library_create_from_tag, and do not carry LIB_TAG_DOIT.
GraphUnflagged ==
  {e \in LocalIDs(bmain_old) \cap call.ret.mid.ids : LIB_TAG_DOIT \notin call.ret.mid.tag[e]}

ResyncStepsOf(r) ==
  {ResyncStep(step, call.ret.map[r], call.ret.mid.newid[r]) :
     step \in {"swap_names", "remap", "copy_rules"}}

\* C11: in a resync, every application of the operations to a new override
\* comes after the name swap, the remap and the copy of the properties of
\* every pair of an old and a new override of the hierarchy.
C11_ApplyAfterAllPairsReplaced ==
  call.fn = "resync" /\ call.ret.copied =>
    \A i \in DOMAIN call.ret.log :
      call.ret.log[i].step = "apply" =>
        \A r \in ResyncReplaced :
          \A step \in ResyncStepsOf(r) :
            \E j \in 1..(i - 1) : call.ret.log[j] = step

\* C11 witness: a resync applied the operations to the new overrides of two
\* pairs.
C11_Witness ==
  /\ GraphSucceeded({"resync"})
  /\ \E i, j \in DOMAIN call.ret.log :
       /\ call.ret.log[i].step = "apply"
       /\ call.ret.log[j].step = "apply"
       /\ call.ret.log[i].new # call.ret.log[j].new

\* Main.relations exists before the i-th event: it was built, and not freed
\* since.
RelationsPresent(events, i) ==
  \E j \in 1..(i - 1) :
    /\ events[j] = "relations_create"
    /\ \A k \in (j + 1)..(i - 1) : events[k] # "relations_free"

\* C23: in a hierarchy creation (create with create_do) Main.relations is
\* built once, and it exists whenever the pass over the dependencies reads
\* it.
C23_RelationsBuiltOnce ==
  call.fn = "create" =>
    /\ Cardinality({i \in DOMAIN call.ret.relations :
                      call.ret.relations[i] = "relations_create"}) = 1
    /\ \A i \in DOMAIN call.ret.relations :
         call.ret.relations[i] = "relations_read"
           => RelationsPresent(call.ret.relations, i)

(***************************************************************************)
(* SpecTasks: BKE_lib_override_library_main_operations_create with the     *)
(* tasks of its pool.  R is a linked armature object, A and B are local    *)
(* overrides of R, M is a local mesh override of the linked mesh X, which   *)
(* is a place-holder of missing data, and T is a local template.  A task    *)
(* runs BKE_lib_override_library_operations_create on its ID in three       *)
(* steps: the pose of the ID is ensured, the pose of its reference is       *)
(* ensured, the two are compared.  BKE_pose_ensure is a test followed by    *)
(* the rebuild: a thread that found a pose to rebuild is in rebuilding      *)
(* until its next step, which ends the rebuild.  call.ret holds the state   *)
(* of the call:                                                             *)
(*   order       the IDs as FOREACH_MAIN_ID goes through them, i the        *)
(*               position of the loop                                      *)
(*   pc          "dispatch" while the loop and the pool run, then "done"   *)
(*   task        the position of the task of each ID                       *)
(*   rebuilding  the pairs <<thread, object>> of the rebuilds under way;   *)
(*               the thread of a task is its ID, TasksMainThread the one   *)
(*               that runs the loop                                        *)
(*   wrote       <<task, ID, field>> for every field of an ID a task has   *)
(*               changed                                                   *)
(***************************************************************************)
TasksID == [R |-> 1, A |-> 2, B |-> 3, M |-> 4, X |-> 5, T |-> 6]
TasksR == TasksID.R
TasksA == TasksID.A
TasksB == TasksID.B
TasksM == TasksID.M
TasksX == TasksID.X
TasksT == TasksID.T
TasksMainThread == NULL

TasksFields == {"override_library", "values", "pose"}

TasksMain(pose_r, pose_a, a_a, b_a, b_c, tagged) ==
  [AddID(AddID(AddID(AddID(AddID(AddID(EmptyMain, 1, "OB", "R"), NULL, "OB", "A"),
                           NULL, "OB", "B"), NULL, "ME", "M"), 1, "ME", "X"),
         NULL, "OB", "T")
     EXCEPT
       !.ob_type = [@ EXCEPT ![TasksR] = OB_ARMATURE, ![TasksA] = OB_ARMATURE,
                             ![TasksB] = OB_ARMATURE],
       !.pose = [@ EXCEPT ![TasksR] = pose_r, ![TasksA] = pose_a, ![TasksB] = POSE_VALID],
       !.values = [@ EXCEPT ![TasksA]["a"] = a_a, ![TasksB]["a"] = b_a,
                            ![TasksB]["c"] = b_c],
       !.tag = [e \in IDs |->
                  (IF e \in tagged THEN {LIB_TAG_OVERRIDE_LIBRARY_AUTOREFRESH} ELSE {})
                  \cup (IF e = TasksX THEN {LIB_TAG_MISSING} ELSE {})],
       !.us = [@ EXCEPT ![TasksR] = 2, ![TasksX] = 1],
       !.override_library =
          [@ EXCEPT
             ![TasksA] = [NoLink EXCEPT !.has = TRUE, !.reference = TasksR],
             ![TasksB] = [NoLink EXCEPT !.has = TRUE, !.reference = TasksR,
                                        !.properties = <<StoreProperty("a", 1)>>],
             ![TasksM] = [NoLink EXCEPT !.has = TRUE, !.reference = TasksX,
                                        !.properties = <<StoreProperty("a", 2)>>],
             ![TasksT] = [NoLink EXCEPT !.has = TRUE]]]

InitTasks ==
  /\ \E pose_r \in {POSE_NULL, POSE_RECALC, POSE_VALID}, pose_a \in {POSE_NULL, POSE_VALID},
        a_a \in 0..1, b_a \in 0..1, b_c \in 0..1,
        tagged \in {{TasksA, TasksB, TasksM}, {TasksA, TasksB}, {TasksB}} :
       bmain = TasksMain(pose_r, pose_a, a_a, b_a, b_c, tagged)
  /\ bmain_old = bmain
  /\ call = NoCall

TasksState(force_auto, order) ==
  [force_auto |-> force_auto, order |-> order, i |-> 1, pc |-> "dispatch",
   task |-> [e \in IDs |-> "none"], rebuilding |-> {}, wrote |-> {}]

\* The fields of the IDs that differ between two registries, as written by
\* the task t.
TasksWrites(t, bm1, bm2) ==
  {<<t, w[1], w[2]>> :
     w \in {w \in bm1.ids \X TasksFields : bm1[w[2]][w[1]] # bm2[w[2]][w[1]]}}
  \cup {<<t, l.from, "links">> :
          l \in (bm1.links \ bm2.links) \cup (bm2.links \ bm1.links)}

\* The rebuild of the pose of ob the thread has under way, if any, ends.
TasksRebuildEnd(bm, rebuilding, thread, ob) ==
  IF <<thread, ob>> \in rebuilding THEN BKE_pose_rebuild(bm, ob) ELSE bm

lib_override_library_main_pose_ensure_mutant(bm) == bm

\* The loop over bmain->objects that ensures the pose of every armature
\* object.
RECURSIVE lib_override_library_main_pose_ensure_loop(_, _)
lib_override_library_main_pose_ensure_loop(bm, ids) ==
  IF ids = <<>> THEN bm
  ELSE lib_override_library_main_pose_ensure_loop(
         IF lib_override_library_is_armature_object(bm, Head(ids))
         THEN BKE_pose_ensure(bm, Head(ids))
         ELSE bm,
         Tail(ids))

lib_override_library_main_pose_ensure(bm) ==
  lib_override_library_main_pose_ensure_loop(bm, MainOrder(bm))

\* Whether the loop over Main handles the ID.
lib_override_library_main_operations_create_selects(bm, id, force_auto) ==
  ID_IS_OVERRIDE_LIBRARY_REAL(bm, id)
  /\ (force_auto \/ LIB_TAG_OVERRIDE_LIBRARY_AUTOREFRESH \in bm.tag[id])

\* Whether the loop over Main pushes a task for the ID.
lib_override_library_main_operations_create_pushes(bm, id, force_auto) ==
  lib_override_library_main_operations_create_selects(bm, id, force_auto)
  /\ ~ID_MISSING(bm, bm.override_library[id].reference)

\* The round without the second branch of the test on the reference.
lib_override_library_main_operations_create_id_mutant(bm, id, force_auto) ==
  [bm EXCEPT !.tag[id] = @ \ {LIB_TAG_OVERRIDE_LIBRARY_AUTOREFRESH}]

\* What one round of the loop over Main does to the registry once the pose
\* of the ID is ensured.
lib_override_library_main_operations_create_id(bm, id, force_auto) ==
  [(IF lib_override_library_main_operations_create_selects(bm, id, force_auto)
       /\ ID_MISSING(bm, bm.override_library[id].reference)
    THEN BKE_lib_override_library_properties_tag(bm, id, IDOVERRIDE_LIBRARY_TAG_UNUSED, FALSE)
    ELSE bm)
     EXCEPT !.tag[id] = @ \ {LIB_TAG_OVERRIDE_LIBRARY_AUTOREFRESH}]

\* The call up to the creation of the pool.
TasksBegin(force_auto) ==
  /\ call.fn = "none"
  /\ \E bm1 \in {lib_override_library_main_pose_ensure(
                   IF force_auto
                   THEN BKE_lib_override_library_main_tag(
                          bmain, IDOVERRIDE_LIBRARY_TAG_UNUSED, TRUE)
                   ELSE bmain)} :
       /\ bmain' = bm1
       /\ call' = Call("main_operations_create", <<force_auto>>,
                       TasksState(force_auto, MainOrder(bm1)))
  /\ UNCHANGED bmain_old

\* One round of the loop over Main; the round stops in BKE_pose_ensure when
\* the pose of the ID has to be rebuilt.
TasksDispatch ==
  /\ call.fn = "main_operations_create"
  /\ call.ret.pc = "dispatch"
  /\ call.ret.i <= Len(call.ret.order)
  /\ \E id \in {call.ret.order[call.ret.i]} :
       IF lib_override_library_main_operations_create_selects(bmain, id, call.ret.force_auto)
          /\ lib_override_library_is_armature_object(bmain, id)
          /\ BKE_pose_needs_rebuild(bmain, id)
          /\ <<TasksMainThread, id>> \notin call.ret.rebuilding
       THEN /\ call' = [call EXCEPT !.ret.rebuilding = @ \cup {<<TasksMainThread, id>>}]
            /\ UNCHANGED bmain
       ELSE /\ bmain' = lib_override_library_main_operations_create_id(
                          TasksRebuildEnd(bmain, call.ret.rebuilding, TasksMainThread, id),
                          id, call.ret.force_auto)
            /\ call' = [call EXCEPT
                          !.ret.rebuilding = @ \ {<<TasksMainThread, id>>},
                          !.ret.i = @ + 1,
                          !.ret.task[id] =
                             IF lib_override_library_main_operations_create_pushes(
                                  bmain, id, call.ret.force_auto)
                             THEN "pushed" ELSE @]
  /\ UNCHANGED bmain_old

\* The task of t starts: operations_create returns for a template and for a
\* missing reference, and ensures the pose of an armature object.
TaskEnsureLocal(t) ==
  /\ call.fn = "main_operations_create"
  /\ call.ret.task[t] = "pushed"
  /\ call' = [call EXCEPT
                !.ret.task[t] =
                   IF bmain.override_library[t].reference = NULL THEN "done"
                   ELSE IF ID_MISSING(bmain, bmain.override_library[t].reference) THEN "done"
                   ELSE IF lib_override_library_is_armature_object(bmain, t)
                   THEN "ensure_reference"
                   ELSE "compare",
                !.ret.rebuilding =
                   IF bmain.override_library[t].reference # NULL
                      /\ ~ID_MISSING(bmain, bmain.override_library[t].reference)
                      /\ lib_override_library_is_armature_object(bmain, t)
                      /\ BKE_pose_needs_rebuild(bmain, t)
                   THEN @ \cup {<<t, t>>} ELSE @]
  /\ UNCHANGED <<bmain, bmain_old>>

\* The task of t ensures the pose of the reference of t.
TaskEnsureReference(t) ==
  /\ call.fn = "main_operations_create"
  /\ call.ret.task[t] = "ensure_reference"
  /\ \E bm1 \in {TasksRebuildEnd(bmain, call.ret.rebuilding, t, t)} :
       /\ bmain' = bm1
       /\ call' = [call EXCEPT
                     !.ret.task[t] = "compare",
                     !.ret.wrote = @ \cup TasksWrites(t, bmain, bm1),
                     !.ret.rebuilding =
                        (@ \ {<<t, t>>})
                        \cup (IF BKE_pose_needs_rebuild(bm1, bm1.override_library[t].reference)
                              THEN {<<t, bm1.override_library[t].reference>>} ELSE {})]
  /\ UNCHANGED bmain_old

\* The task of t compares t with its reference.
TaskCompare(t) ==
  /\ call.fn = "main_operations_create"
  /\ call.ret.task[t] = "compare"
  /\ \E r \in {lib_override_library_operations_create_compare(
                 TasksRebuildEnd(bmain, call.ret.rebuilding, t,
                                 bmain.override_library[t].reference), t)} :
       /\ bmain' = r.bm
       /\ call' = [call EXCEPT
                     !.ret.task[t] = "done",
                     !.ret.wrote = @ \cup TasksWrites(t, bmain, r.bm),
                     !.ret.rebuilding = @ \ {<<t, bmain.override_library[t].reference>>}]
  /\ UNCHANGED bmain_old

\* BLI_task_pool_work_and_wait returns once every task has ended; the pool is
\* freed and the call ends.
TasksWait ==
  /\ call.fn = "main_operations_create"
  /\ call.ret.pc = "dispatch"
  /\ call.ret.i > Len(call.ret.order)
  /\ \A t \in IDs : call.ret.task[t] \in {"none", "done"}
  /\ bmain' = IF call.ret.force_auto
              THEN BKE_lib_override_library_main_unused_cleanup(bmain)
              ELSE bmain
  /\ call' = [call EXCEPT !.ret.pc = "done"]
  /\ UNCHANGED bmain_old

NextTasks ==
  \/ \E force_auto \in BOOLEAN : TasksBegin(force_auto)
  \/ TasksDispatch
  \/ \E t \in IDs : TaskEnsureLocal(t)
  \/ \E t \in IDs : TaskEnsureReference(t)
  \/ \E t \in IDs : TaskCompare(t)
  \/ TasksWait

SpecTasks == InitTasks /\ [][NextTasks]_vars

\* The properties and operations recorded in the override data of an ID,
\* without their tags.
TasksRecorded(bm, id) ==
  [i \in DOMAIN bm.override_library[id].properties |->
     With(bm.override_library[id].properties[i], LAMBDA op :
       [rna_path |-> op.rna_path,
        operations |-> [j \in DOMAIN op.operations |->
                          [op.operations[j] EXCEPT !.tag = {}]]])]

\* The overrides whose reference is a place-holder of missing data.
TasksOfMissing ==
  {e \in bmain.ids : /\ ID_IS_OVERRIDE_LIBRARY_REAL(bmain, e)
                     /\ ID_MISSING(bmain, bmain.override_library[e].reference)}

\* C39: all along BKE_lib_override_library_main_operations_create with
\* force_auto, and when it has returned, an override whose reference is a
\* place-holder of missing data has the properties and operations it had
\* before the call, and no task was pushed for it.
C39_MissingReferenceKept ==
  (call.fn = "main_operations_create" /\ call.ret.force_auto) =>
    \A e \in TasksOfMissing :
      /\ TasksRecorded(bmain, e) = TasksRecorded(bmain_old, e)
      /\ call.ret.task[e] = "none"

\* The call with force_auto has returned, it has removed a property from
\* another override, and the override of the missing mesh has its property.
C39_Witness ==
  /\ call.fn = "main_operations_create"
  /\ call.ret.force_auto
  /\ call.ret.pc = "done"
  /\ TasksM \in TasksOfMissing
  /\ TasksRecorded(bmain, TasksM) # <<>>
  /\ \E e \in bmain.ids : Len(TasksRecorded(bmain, e)) < Len(TasksRecorded(bmain_old, e))

\* The tasks that were pushed and have not ended.
TasksRunning ==
  IF call.fn = "main_operations_create"
  THEN {t \in IDs : call.ret.task[t] \notin {"none", "done"}}
  ELSE {}

\* C12 as stated: once a task is pushed no pose is left to rebuild and no
\* thread rebuilds one, so that no two threads rebuild the pose of one
\* object, and the only thing a task changes is the override data of its ID.
C12_TasksWriteOnlyOverrideData ==
  call.fn = "main_operations_create" =>
    /\ \A ob \in bmain.ids :
         lib_override_library_is_armature_object(bmain, ob) => ~BKE_pose_needs_rebuild(bmain, ob)
    /\ call.ret.rebuilding = {}
    /\ \A w \in call.ret.wrote : w[2] = w[1] /\ w[3] = "override_library"

\* C12, amended: in main_operations_create every pose of an armature object
\* is rebuilt before the first task is pushed: from then on no object has a
\* pose to rebuild and no thread rebuilds one, so no two tasks ever rebuild
\* the pose of the same object; and a task changes nothing but its own ID,
\* of which it changes the override data and the values that the comparison
\* restores from the reference.
C12_PosesRebuiltBeforeTasks ==
  call.fn = "main_operations_create" =>
    /\ \A ob \in bmain.ids :
         lib_override_library_is_armature_object(bmain, ob) => ~BKE_pose_needs_rebuild(bmain, ob)
    /\ call.ret.rebuilding = {}
    /\ \A w \in call.ret.wrote : w[2] = w[1] /\ w[3] \in {"override_library", "values"}

\* The tasks of A and B, which share the reference R whose pose had to be
\* rebuilt, both are about to compare, and one task has ended.
C12_Witness ==
  /\ bmain_old.pose[TasksR] # POSE_VALID
  /\ {TasksA, TasksB} \subseteq TasksRunning
  /\ call.ret.task[TasksA] = "compare"
  /\ call.ret.task[TasksB] = "compare"


(***************************************************************************)
(* SpecEngine: the comparison, the update and the storage of one override. *)
(* G is an object of library 2 and R an object of library 1 that may be    *)
(* an override of G; L is a local override of R, T a local template, X an  *)
(* object of library 1 the pointer of R points to, and Y a local object.   *)
(* The user edits the values and the pointer of L between the calls.       *)
(* call.ret holds the value the call returned (value), the call made       *)
(* before it (prev) and, for an update and for the call that follows it,   *)
(* the properties the ID had when the update was called (properties) and   *)
(* whether they held a property for every overridable property that        *)
(* differed from the reference (captured).                                 *)
(***************************************************************************)
MaxEngineCalls == 2

EngineID == [G |-> 1, R |-> 2, L |-> 3, T |-> 4, X |-> 5, Y |-> 6]
EngineG == EngineID.G
EngineR == EngineID.R
EngineL == EngineID.L
EngineT == EngineID.T
EngineX == EngineID.X
EngineY == EngineID.Y

EngineMain(r_override, r_refok, r_missing, g_a, l_a, l_c, l_b, l_rules) ==
  [AddID(AddID(AddID(AddID(AddID(AddID(EmptyMain, 2, "OB", "O"), 1, "OB", "R"),
                           NULL, "OB", "A"), NULL, "OB", "T"), 1, "OB", "X"),
         NULL, "OB", "B")
     EXCEPT
       !.values = [@ EXCEPT ![EngineG]["a"] = g_a, ![EngineL]["a"] = l_a,
                            ![EngineL]["c"] = l_c],
       !.links = {Link(EngineR, EngineX, IDWALK_CB_USER), Link(EngineL, l_b, IDWALK_CB_USER)},
       !.us = [@ EXCEPT ![EngineR] = 1, ![EngineG] = IF r_override THEN 1 ELSE 0],
       !.tag = [@ EXCEPT ![EngineR] = (IF r_override /\ r_refok
                                       THEN {LIB_TAG_OVERRIDE_LIBRARY_REFOK} ELSE {})
                                      \cup (IF r_missing THEN {LIB_TAG_MISSING} ELSE {})],
       !.override_library =
          [@ EXCEPT
             ![EngineR] = IF r_override
                          THEN [NoLink EXCEPT !.has = TRUE, !.reference = EngineG]
                          ELSE NoLink,
             ![EngineL] = [NoLink EXCEPT
                             !.has = TRUE, !.reference = EngineR,
                             !.properties = IF l_rules THEN <<StoreProperty("a", 1)>>
                                            ELSE <<>>],
             ![EngineT] = [NoLink EXCEPT !.has = TRUE,
                                         !.properties = <<StoreProperty("a", 2)>>]]]

InitEngine ==
  /\ \E r_override \in BOOLEAN, r_refok \in BOOLEAN, r_missing \in BOOLEAN,
        g_a \in 0..1, l_a \in 0..1, l_c \in 0..1,
        l_b \in {EngineX, EngineY}, l_rules \in BOOLEAN :
       /\ r_refok => r_override
       /\ g_a = 1 => r_override
       /\ r_missing => ~r_override
       /\ bmain = EngineMain(r_override, r_refok, r_missing, g_a, l_a, l_c, l_b, l_rules)
  /\ bmain_old = bmain
  /\ call = NoCall

EngineTargets == {EngineL, EngineT}

EngineNoUpdate == [captured |-> FALSE, properties |-> <<>>]

EngineCall(fn, args, value, update) ==
  [fn |-> fn, args |-> args, crashed |-> FALSE, seq |-> call.seq + 1,
   ret |-> [value |-> value, prev |-> <<call.fn, call.args>>,
            captured |-> update.captured, properties |-> update.properties]]

\* The override data of local holds a property for every property that may
\* be overridden and differs from the one of the reference.
EngineCaptured(bm, local) ==
  ID_IS_OVERRIDE_LIBRARY_REAL(bm, local)
  /\ \A i \in DOMAIN RNAPaths :
       (RNA_property_overridable(RNAPaths[i])
        /\ RNA_property_get(bm, local, RNAPaths[i])
             # RNA_property_get(bm, bm.override_library[local].reference, RNAPaths[i]))
       => \E j \in DOMAIN bm.override_library[local].properties :
            bm.override_library[local].properties[j].rna_path = RNAPaths[i]

\* The user sets a property of L.
EngineEdit(rna_path, value) ==
  /\ call.seq < MaxEngineCalls
  /\ RNA_property_get(bmain, EngineL, rna_path) # value
  /\ bmain' = RNA_property_set(bmain, EngineL, rna_path, value)
  /\ call' = [call EXCEPT !.fn = "edit", !.args = <<rna_path, value>>, !.ret = NULL]
  /\ bmain_old' = bmain

EngineOperationsCreate(local) ==
  /\ call.seq < MaxEngineCalls
  /\ \E r \in {BKE_lib_override_library_operations_create(bmain, local)} :
       /\ bmain' = r.bm
       /\ call' = EngineCall("operations_create", <<local>>, r.ret,
                             IF call.fn = "update" THEN call.ret ELSE EngineNoUpdate)
  /\ bmain_old' = bmain

EngineUpdate(local, do_fail) ==
  /\ call.seq < MaxEngineCalls
  /\ bmain' = BKE_lib_override_library_update(bmain, local, do_fail)
  /\ call' = EngineCall("update", <<local, do_fail>>, NULL,
                         [captured |-> EngineCaptured(bmain, local),
                          properties |-> bmain.override_library[local].properties])
  /\ bmain_old' = bmain

EngineStoreStart(local) ==
  /\ call.seq < MaxEngineCalls
  /\ \E r \in {BKE_lib_override_library_operations_store_start(bmain, local)} :
       /\ bmain' = r.bm
       /\ call' = EngineCall("store_start", <<local>>, r.ret, EngineNoUpdate)
  /\ bmain_old' = bmain

EngineEdits ==
  ({"a", "c"} \X (0..1)) \cup ({"b"} \X {EngineX, EngineY})

NextEngine ==
  \/ \E e \in EngineEdits : EngineEdit(e[1], e[2])
  \/ \E local \in EngineTargets : EngineOperationsCreate(local)
  \/ \E local \in EngineTargets, do_fail \in BOOLEAN : EngineUpdate(local, do_fail)
  \/ \E local \in EngineTargets : EngineStoreStart(local)

SpecEngine == InitEngine /\ [][NextEngine]_vars

\* C13: operations_create on an ID whose override data is a template (its
\* reference is NULL) returns false and changes nothing: the ID, its
\* properties and their operations, and the rest of Main are as before.
C13_TemplateUntouched ==
  (call.fn = "operations_create"
   /\ ID_IS_OVERRIDE_LIBRARY_TEMPLATE(bmain_old, call.args[1]))
  => call.ret.value = FALSE /\ bmain = bmain_old

C13_Witness ==
  /\ call.fn = "operations_create"
  /\ call.args[1] = EngineT
  /\ ID_IS_OVERRIDE_LIBRARY_TEMPLATE(bmain_old, EngineT)
  /\ bmain_old.override_library[EngineT].properties # <<>>


\* operations_create of an override follows the update of the same override.
EngineRoundTrip ==
  /\ call.fn = "operations_create"
  /\ call.ret.prev[1] = "update"
  /\ call.ret.prev[2][1] = call.args[1]
  /\ ID_IS_OVERRIDE_LIBRARY_REAL(bmain, call.args[1])

C21_UpdateMissingReference ==
  (/\ call.fn = "update"
   /\ ID_IS_OVERRIDE_LIBRARY_REAL(bmain_old, call.args[1])
   /\ ID_MISSING(bmain_old, bmain_old.override_library[call.args[1]].reference))
  => /\ bmain.ids = bmain_old.ids
     /\ bmain.next_id = bmain_old.next_id
     /\ bmain.values = bmain_old.values
     /\ bmain.links = bmain_old.links
     /\ bmain.name = bmain_old.name
     /\ bmain.flag = bmain_old.flag
     /\ bmain.tag = bmain_old.tag
     /\ bmain.us = bmain_old.us
     /\ bmain.override_library = bmain_old.override_library

\* The update of L, which differs from its missing reference R in a value
\* its properties override, was asked for with a copy that would succeed.
C21_Witness ==
  /\ call.fn = "update" /\ call.args = <<EngineL, FALSE>>
  /\ ID_MISSING(bmain_old, EngineR)
  /\ bmain_old.override_library[EngineL].properties # <<>>
  /\ RNA_property_get(bmain, EngineL, "a") # RNA_property_get(bmain, EngineR, "a")
  /\ LIB_TAG_OVERRIDE_LIBRARY_REFOK \notin bmain.tag[EngineL]

\* C22: after update(local) on a real override whose reference is present
\* and can be copied, local is the ID it was, in Main under the name it had,
\* it carries LIB_TAG_OVERRIDE_LIBRARY_REFOK, its storage is NULL, and the
\* temporary copy of the reference is not in Main: Main holds the IDs it
\* held before the call.
C22_UpdateKeepsIdentity ==
  (/\ call.fn = "update" /\ ~call.args[2]
   /\ ID_IS_OVERRIDE_LIBRARY_REAL(bmain_old, call.args[1])
   /\ ~ID_MISSING(bmain_old, bmain_old.override_library[call.args[1]].reference))
  => /\ call.args[1] \in bmain.ids
     /\ bmain.name[call.args[1]] = bmain_old.name[call.args[1]]
     /\ bmain.lib[call.args[1]] = bmain_old.lib[call.args[1]]
     /\ bmain.override_library[call.args[1]].reference
          = bmain_old.override_library[call.args[1]].reference
     /\ LIB_TAG_OVERRIDE_LIBRARY_REFOK \in bmain.tag[call.args[1]]
     /\ bmain.override_library[call.args[1]].storage = NULL
     /\ bmain.ids = bmain_old.ids

\* L, not yet verified against R, was updated, and the update has replaced
\* a value of L by the one of R.
C22_Witness ==
  /\ call.fn = "update" /\ call.args = <<EngineL, FALSE>>
  /\ ~ID_MISSING(bmain_old, EngineR)
  /\ LIB_TAG_OVERRIDE_LIBRARY_REFOK \notin bmain_old.tag[EngineL]
  /\ LIB_TAG_OVERRIDE_LIBRARY_REFOK \in bmain.tag[EngineL]
  /\ bmain.values[EngineL] # bmain_old.values[EngineL]

\* C19: store_start leaves the local ID as it was: its values, its pointer
\* and its properties with their operations are those it had before the
\* call; nothing but the storage pointer of its override data may differ.
C19_StoreStartKeepsLocal ==
  call.fn = "store_start" =>
    /\ bmain.values[call.args[1]] = bmain_old.values[call.args[1]]
    /\ RNA_property_pointer_get(bmain, call.args[1])
         = RNA_property_pointer_get(bmain_old, call.args[1])
    /\ bmain.override_library[call.args[1]].properties
         = bmain_old.override_library[call.args[1]].properties


(***************************************************************************)
(* SpecGroup: the tagging of the groups and the deletion of a hierarchy,   *)
(* on the registry of SpecGraph.  The caller may have tagged a root        *)
(* (lib_override_library_create_do tags its root, the resync does not tag  *)
(* the reference of its root), and B or M may be a place-holder of missing *)
(* data.  call.ret.prev is the call made before.                           *)
(***************************************************************************)
MaxGroupCalls == 2

GroupMain(m_uses_o, s_has_c, with_overrides, tagged, missing) ==
  [GraphMain(m_uses_o, s_has_c, FALSE, with_overrides) EXCEPT
     !.tag = [e \in IDs |-> @[e] \cup (IF e \in tagged THEN {LIB_TAG_DOIT} ELSE {})
                                 \cup (IF e \in missing THEN {LIB_TAG_MISSING} ELSE {})]]

InitGroup ==
  /\ \E m_uses_o \in BOOLEAN, s_has_c \in BOOLEAN, with_overrides \in BOOLEAN,
        tagged \in {{}, {GraphC}, {GraphO}}, missing \in {{}, {GraphB}, {GraphM}} :
       bmain = GroupMain(m_uses_o, s_has_c, with_overrides, tagged, missing)
  /\ bmain_old = bmain
  /\ call = NoCall

GroupCall(fn, args) ==
  [fn |-> fn, args |-> args, ret |-> [prev |-> <<call.fn, call.args>>],
   crashed |-> FALSE, seq |-> call.seq + 1]

GroupTagged(bm, tag) == {e \in bm.ids : tag \in bm.tag[e]}

GroupLinkedTag(id) ==
  /\ call.seq < MaxGroupCalls
  /\ id \in LinkedIDs(bmain)
  /\ bmain' = lib_override_linked_group_tag(bmain, id, LIB_TAG_DOIT, LIB_TAG_MISSING)
  /\ call' = GroupCall("linked_group_tag", <<id>>)
  /\ bmain_old' = bmain

GroupLocalTag(id) ==
  /\ call.seq < MaxGroupCalls
  /\ id \in LocalIDs(bmain)
  /\ ID_IS_OVERRIDE_LIBRARY_REAL(bmain, id)
  /\ bmain' = lib_override_local_group_tag(bmain, id, LIB_TAG_DOIT, LIB_TAG_MISSING)
  /\ call' = GroupCall("local_group_tag", <<id>>)
  /\ bmain_old' = bmain

\* The hierarchy of a local override is deleted; the caller has cleared the
\* tags, since every ID that is tagged is deleted.
GroupDelete(id_root) ==
  /\ call.seq < MaxGroupCalls
  /\ id_root \in LocalIDs(bmain)
  /\ ID_IS_OVERRIDE_LIBRARY_REAL(bmain, id_root)
  /\ GroupTagged(bmain, LIB_TAG_DOIT) = {}
  /\ bmain' = BKE_lib_override_library_delete(bmain, id_root)
  /\ call' = GroupCall("delete", <<id_root>>)
  /\ bmain_old' = bmain

NextGroup ==
  \/ \E id \in {GraphC, GraphO, GraphB, GraphM} : GroupLinkedTag(id)
  \/ \E id \in IDs : GroupLocalTag(id)
  \/ \E id_root \in IDs : GroupDelete(id_root)

SpecGroup == InitGroup /\ [][NextGroup]_vars

\* C14: when lib_override_linked_group_tag has run from a root and runs again
\* from the same root, the tags not cleared in between, the IDs tagged
\* LIB_TAG_DOIT and the IDs tagged LIB_TAG_MISSING after the second run are
\* those after the first.
C14_TaggerIdempotent ==
  (call.fn = "linked_group_tag" /\ call.ret.prev = <<"linked_group_tag", call.args>>)
  => /\ GroupTagged(bmain, LIB_TAG_DOIT) = GroupTagged(bmain_old, LIB_TAG_DOIT)
     /\ GroupTagged(bmain, LIB_TAG_MISSING) = GroupTagged(bmain_old, LIB_TAG_MISSING)

\* The IDs an ID depends on, as the pass over the dependencies sees them:
\* the IDs of its library it points to by pointers that are no loop-back
\* pointers.
GroupDepends(bm, e) ==
  {p.to : p \in {p \in PointersOf(bm, e) :
                   p.cb # IDWALK_CB_LOOPBACK /\ bm.lib[p.to] = bm.lib[e]}}

\* The IDs the pass reaches from the IDs of walked.
RECURSIVE GroupReached(_, _)
GroupReached(bm, walked) ==
  LET more == UNION {GroupDepends(bm, e) : e \in walked}
  IN IF more \subseteq walked THEN walked ELSE GroupReached(bm, walked \cup more)

\* C24 as stated: after the tagging of the group of a root and the pass over
\* the dependencies, every ID of the library of the root that an ID tagged
\* LIB_TAG_DOIT depends on carries LIB_TAG_DOIT as well.
C24_DependenciesTagged ==
  call.fn = "linked_group_tag" =>
    \A e \in GroupTagged(bmain, LIB_TAG_DOIT) :
      \A d \in GroupDepends(bmain, e) :
        bmain.lib[d] = bmain.lib[call.args[1]] => LIB_TAG_DOIT \in bmain.tag[d]

\* The registry when lib_override_linked_group_tag starts its pass over the
\* dependencies: the objects and collections of the group are tagged, the
\* bone shapes are not.
GroupBoundary(bm, id) ==
  IF bm.code[id] \in {"OB", "GR"}
  THEN lib_override_linked_group_untag_bone_shapes(
         BKE_library_foreach_ID_link(TRUE, bm, id, LIB_TAG_DOIT, LIB_TAG_MISSING),
         LIB_TAG_DOIT, LIB_TAG_MISSING)
  ELSE bm

\* C24: after the tagging of the group of a root and the pass over the
\* dependencies, every ID the pass reaches from the root that depends on an
\* ID that carried LIB_TAG_DOIT when the pass started carries LIB_TAG_DOIT
\* itself: the tag goes from the ID that is used to its users.
C24_UsersTagged ==
  call.fn = "linked_group_tag" =>
    \A e \in GroupReached(bmain_old, {call.args[1]}) :
      (\E d \in GroupDepends(bmain_old, e) :
         LIB_TAG_DOIT \in GroupBoundary(bmain_old, call.args[1]).tag[d])
      => LIB_TAG_DOIT \in bmain.tag[e]

\* The pass from the collection C has tagged the mesh M, which uses the
\* object O, and M was not tagged before.
C24_Witness ==
  /\ call.fn = "linked_group_tag" /\ call.args = <<GraphC>>
  /\ GraphO \in GroupDepends(bmain, GraphM)
  /\ LIB_TAG_DOIT \in GroupBoundary(bmain_old, GraphC).tag[GraphO]
  /\ LIB_TAG_DOIT \in bmain.tag[GraphM]
  /\ LIB_TAG_DOIT \notin bmain_old.tag[GraphM]

\* The walk lib_override_linked_group_tag makes from its root with
\* lib_override_linked_group_tag_cb, on the registry the call started from.
GroupLinkedWalk ==
  ForeachIDLinkWalk(TRUE, bmain_old, call.args[1], LIB_TAG_DOIT, LIB_TAG_MISSING)

\* C26: the walk of lib_override_linked_group_tag_cb changes the tags of no
\* ID of a library other than the one of the root; a place-holder carries
\* LIB_TAG_MISSING after it and has not got LIB_TAG_DOIT from it; and the
\* pointers of an ID that carried LIB_TAG_DOIT or LIB_TAG_MISSING when the
\* callback reached it are not visited.
C26_LinkedTagPass ==
  (call.fn = "linked_group_tag" /\ bmain_old.code[call.args[1]] \in {"OB", "GR"})
  => With(GroupLinkedWalk, LAMBDA w :
       /\ \A e \in bmain_old.ids :
            w.bm.tag[e] # bmain_old.tag[e] => bmain_old.lib[e] = bmain_old.lib[call.args[1]]
       /\ \A e \in bmain_old.ids :
            ID_MISSING(bmain_old, e)
            => /\ LIB_TAG_MISSING \in w.bm.tag[e]
               /\ LIB_TAG_DOIT \in w.bm.tag[e] => LIB_TAG_DOIT \in bmain_old.tag[e]
       /\ (w.walked \ {call.args[1]}) \cap w.stopped = {})

\* The walk from the collection C went through the object O, found the
\* object X of the other library and the place-holder B, tagged O and left
\* X as it was.
C26_Witness ==
  /\ call.fn = "linked_group_tag" /\ call.args = <<GraphC>>
  /\ ID_MISSING(bmain_old, GraphB)
  /\ LIB_TAG_DOIT \notin bmain_old.tag[GraphO]
  /\ With(GroupLinkedWalk, LAMBDA w :
        /\ GraphO \in w.walked /\ GraphX \in w.handled /\ GraphB \in w.stopped
        /\ LIB_TAG_DOIT \in w.bm.tag[GraphO]
        /\ LIB_TAG_DOIT \notin w.bm.tag[GraphX]
        /\ LIB_TAG_DOIT \notin w.bm.tag[GraphB])

\* C27: when lib_override_linked_group_tag has returned, no object that is
\* the custom shape of a pose channel of an armature object tagged
\* LIB_TAG_DOIT carries LIB_TAG_DOIT.
C27_BoneShapesUntagged ==
  call.fn = "linked_group_tag" =>
    \A l \in bmain.links :
      (l.cb = PoseCustom /\ bmain.code[l.from] = "OB" /\ LIB_TAG_DOIT \in bmain.tag[l.from])
      => LIB_TAG_DOIT \notin bmain.tag[l.to]

\* The IDs the walk of the local group of id_root goes into from the IDs of
\* walked: the local IDs with override data that an ID of walked points to,
\* neither by an embedded, nor by a loop-back pointer, nor as its reference;
\* the walk does not go past a real override of another library.
RECURSIVE GroupWalked(_, _, _)
GroupWalked(bm, id_root, walked) ==
  LET more == {l.to : l \in {l \in bm.links :
                 /\ l.from \in walked
                 /\ l.cb \notin {IDWALK_CB_EMBEDDED, IDWALK_CB_LOOPBACK}
                 /\ ID_IS_OVERRIDE_LIBRARY(bm, l.to) /\ ~ID_IS_LINKED(bm, l.to)
                 /\ (ID_IS_OVERRIDE_LIBRARY_REAL(bm, l.to)
                     => bm.lib[bm.override_library[l.to].reference]
                          = bm.lib[bm.override_library[id_root].reference])}}
  IN IF more \subseteq walked THEN walked
     ELSE GroupWalked(bm, id_root, walked \cup more)

\* The real overrides of the local override group of id_root.
GroupOverrides(bm, id_root) ==
  {e \in GroupWalked(bm, id_root, {id_root}) : ID_IS_OVERRIDE_LIBRARY_REAL(bm, e)}

IDOVERRIDE_LIBRARY_OP_ADD == "ADD"
IDOVERRIDE_LIBRARY_OP_SUBTRACT == "SUBTRACT"
IDOVERRIDE_LIBRARY_OP_MULTIPLY == "MULTIPLY"
IDOVERRIDE_LIBRARY_OP_INSERT_AFTER == "INSERT_AFTER"
IDOVERRIDE_LIBRARY_OP_INSERT_BEFORE == "INSERT_BEFORE"

\* The PointerRNA structs a pointer argument may point to: one without data
\* and one with data; the pointer itself may be NULL.
PointerRNAs == <<[data |-> NULL], [data |-> 1]>>
PointerRNAArgs == {NULL} \cup DOMAIN PointerRNAs
PropertyRNAArgs == {NULL, 1}

lib_override_operand_missing_mutant(ptr, prop) ==
  ptr = NULL \/ prop = NULL

\* ptr == NULL || ptr->data == NULL || prop == NULL
lib_override_operand_missing(ptr, prop) ==
  ptr = NULL \/ PointerRNAs[ptr].data = NULL \/ prop = NULL

\* ret is the value returned; assert tells that a BLI_assert failed on the
\* way, which ends the process in a build whose assertions abort.
BKE_lib_override_library_property_operation_operands_validate(operation, ptr_dst, ptr_src, ptr_storage, prop_dst, prop_src, prop_storage) ==
  IF operation = IDOVERRIDE_LIBRARY_OP_NOOP THEN [ret |-> TRUE, assert |-> FALSE]
  ELSE IF operation \in {IDOVERRIDE_LIBRARY_OP_ADD, IDOVERRIDE_LIBRARY_OP_SUBTRACT,
                         IDOVERRIDE_LIBRARY_OP_MULTIPLY}
          /\ lib_override_operand_missing(ptr_storage, prop_storage)
  THEN [ret |-> FALSE, assert |-> TRUE]
  ELSE IF operation \in {IDOVERRIDE_LIBRARY_OP_ADD, IDOVERRIDE_LIBRARY_OP_SUBTRACT,
                         IDOVERRIDE_LIBRARY_OP_MULTIPLY,
                         IDOVERRIDE_LIBRARY_OP_INSERT_AFTER,
                         IDOVERRIDE_LIBRARY_OP_INSERT_BEFORE,
                         IDOVERRIDE_LIBRARY_OP_REPLACE}
          /\ (lib_override_operand_missing(ptr_dst, prop_dst)
              \/ lib_override_operand_missing(ptr_src, prop_src))
  THEN [ret |-> FALSE, assert |-> TRUE]
  ELSE [ret |-> TRUE, assert |-> FALSE]

(***************************************************************************)
(* SpecValidate: operands_validate on every operation kind and every       *)
(* combination of present and absent operands.  Init draws the arguments,  *)
(* the call applies the function to them.                                  *)
(***************************************************************************)
ValidateKinds ==
  {IDOVERRIDE_LIBRARY_OP_NOOP, IDOVERRIDE_LIBRARY_OP_REPLACE, IDOVERRIDE_LIBRARY_OP_ADD,
   IDOVERRIDE_LIBRARY_OP_SUBTRACT, IDOVERRIDE_LIBRARY_OP_MULTIPLY,
   IDOVERRIDE_LIBRARY_OP_INSERT_AFTER, IDOVERRIDE_LIBRARY_OP_INSERT_BEFORE}

InitValidate ==
  /\ bmain = EmptyMain
  /\ bmain_old = bmain
  /\ \E operation \in ValidateKinds,
        ptr_dst \in PointerRNAArgs, ptr_src \in PointerRNAArgs,
        ptr_storage \in PointerRNAArgs,
        prop_dst \in PropertyRNAArgs, prop_src \in PropertyRNAArgs,
        prop_storage \in PropertyRNAArgs :
       call = Call("arguments",
                   <<operation, ptr_dst, ptr_src, ptr_storage,
                     prop_dst, prop_src, prop_storage>>, NULL)

\* ub_crash: the build's assertions abort.
ValidateCall(ub_crash) ==
  /\ call.fn = "arguments"
  /\ \E r \in {BKE_lib_override_library_property_operation_operands_validate(
                 call.args[1], call.args[2], call.args[3], call.args[4],
                 call.args[5], call.args[6], call.args[7])} :
       /\ ub_crash => r.assert
       /\ call' = [Call("operands_validate", call.args,
                        IF ub_crash THEN NULL ELSE r.ret)
                   EXCEPT !.crashed = ub_crash]
  /\ UNCHANGED <<bmain, bmain_old>>

NextValidate == \E ub_crash \in BOOLEAN : ValidateCall(ub_crash)

SpecValidate == InitValidate /\ [][NextValidate]_vars

ValidateReturned == call.fn = "operands_validate" /\ ~call.crashed

\* An operand as the claim names it: absent when the pointer, its data or
\* its property is missing.
ValidateAbsent(ptr, prop) ==
  ptr = NULL \/ (ptr # NULL /\ PointerRNAs[ptr].data = NULL) \/ prop = NULL

ValidateDifferential ==
  call.args[1] \in {IDOVERRIDE_LIBRARY_OP_ADD, IDOVERRIDE_LIBRARY_OP_SUBTRACT,
                    IDOVERRIDE_LIBRARY_OP_MULTIPLY}

\* C20: operands_validate returns true for a no-op whatever the operands;
\* false for add, subtract or multiply when the storage operand is absent;
\* false for every kind but no-op when the source or the destination operand
\* is absent; and true in all the other cases.
C20_OperandsValidateTable ==
  ValidateReturned =>
    call.ret =
      (\/ call.args[1] = IDOVERRIDE_LIBRARY_OP_NOOP
       \/ /\ ~(ValidateDifferential /\ ValidateAbsent(call.args[4], call.args[7]))
          /\ ~ValidateAbsent(call.args[2], call.args[5])
          /\ ~ValidateAbsent(call.args[3], call.args[6]))

\* A multiply with destination and source present and the data of the
\* storage pointer missing was refused.
C20_Witness ==
  /\ ValidateReturned
  /\ call.args[1] = IDOVERRIDE_LIBRARY_OP_MULTIPLY
  /\ ~ValidateAbsent(call.args[2], call.args[5])
  /\ ~ValidateAbsent(call.args[3], call.args[6])
  /\ call.args[4] # NULL /\ PointerRNAs[call.args[4]].data = NULL
  /\ call.args[7] # NULL
  /\ call.ret = FALSE

(***************************************************************************)
(* BKE_lib_override_library_id_reset and                                   *)
(* BKE_lib_override_library_id_hierarchy_reset                             *)
(***************************************************************************)
\* do_op_delete is false: the property is a pointer, on both sides it points
\* to an ID, and the local one is an override of the one of the reference.
lib_override_library_id_reset_keeps(bm, id_root, rna_path, ptr, ptr_lib) ==
  /\ RNA_property_type(rna_path) = PROP_POINTER
  /\ ptr # NULL /\ ptr_lib # NULL
  /\ bm.override_library[ptr].has
  /\ bm.override_library[ptr].reference = ptr_lib

\* The loop over the properties of id_root, from the last to the first.
RECURSIVE lib_override_library_id_reset_loop(_, _, _)
lib_override_library_id_reset_loop(bm, id_root, i) ==
  IF i = 0 THEN bm
  ELSE lib_override_library_id_reset_loop(
         IF lib_override_library_id_reset_keeps(
              bm, id_root, bm.override_library[id_root].properties[i].rna_path,
              RNA_property_pointer_get(bm, id_root),
              RNA_property_pointer_get(bm, bm.override_library[id_root].reference))
         THEN bm
         ELSE BKE_lib_override_library_property_delete(bm, id_root, i),
         id_root, i - 1)

lib_override_library_id_reset_tag(bm, bm1, id_root) ==
  IF Len(bm1.override_library[id_root].properties)
       # Len(bm.override_library[id_root].properties)
  THEN [bm |-> [bm1 EXCEPT !.override_library[id_root].runtime.tag =
                             @ \cup {IDOVERRIDE_LIBRARY_RUNTIME_TAG_NEEDS_RELOAD}],
        ret |-> TRUE]
  ELSE [bm |-> bm1, ret |-> FALSE]

lib_override_library_id_reset_do(bm, id_root) ==
  lib_override_library_id_reset_tag(
    bm,
    lib_override_library_id_reset_loop(
      bm, id_root, Len(bm.override_library[id_root].properties)),
    id_root)

\* The update without the end of the tag.
lib_override_library_id_reset_update_mutant(w, id, do_fail) ==
  IF IDOVERRIDE_LIBRARY_RUNTIME_TAG_NEEDS_RELOAD \in w.bm.override_library[id].runtime.tag
  THEN [bm |-> BKE_lib_override_library_update(w.bm, id, do_fail),
        updated |-> Append(w.updated, id)]
  ELSE w

\* The update of an override that needs a reload, and the end of its tag.
\* w.updated holds the IDs BKE_lib_override_library_update was called on,
\* in the order of the calls.
lib_override_library_id_reset_update(w, id, do_fail) ==
  IF IDOVERRIDE_LIBRARY_RUNTIME_TAG_NEEDS_RELOAD \in w.bm.override_library[id].runtime.tag
  THEN [bm |-> [BKE_lib_override_library_update(w.bm, id, do_fail)
                  EXCEPT !.override_library[id].runtime.tag =
                            @ \ {IDOVERRIDE_LIBRARY_RUNTIME_TAG_NEEDS_RELOAD}],
        updated |-> Append(w.updated, id)]
  ELSE w

BKE_lib_override_library_id_reset(bm, id_root, do_fail) ==
  IF ~ID_IS_OVERRIDE_LIBRARY_REAL(bm, id_root) THEN [bm |-> bm, updated |-> <<>>]
  ELSE With(lib_override_library_id_reset_do(bm, id_root), LAMBDA r :
         IF r.ret
         THEN lib_override_library_id_reset_update(
                [bm |-> r.bm, updated |-> <<>>], id_root, do_fail)
         ELSE [bm |-> r.bm, updated |-> <<>>])

lib_override_library_id_hierarchy_reset_skips_mutant(cb) == FALSE

\* Never consider 'loop back' relationships as actual dependencies.
lib_override_library_id_hierarchy_reset_skips(cb) == cb = IDWALK_CB_LOOPBACK

\* w.processed holds the IDs whose entry BKE_main_relations_ID_remove has
\* taken out of Main.relations, w.reset the IDs given to
\* lib_override_library_id_reset_do, in the order of the calls.
RECURSIVE lib_override_library_id_hierarchy_recursive_reset(_, _)
RECURSIVE lib_override_library_id_hierarchy_reset_entries(_, _)

lib_override_library_id_hierarchy_recursive_reset(w, id_root) ==
  IF ~ID_IS_OVERRIDE_LIBRARY_REAL(w.bm, id_root) THEN w
  ELSE IF id_root \in w.processed \/ PointersOf(w.bm, id_root) = {} THEN w
  ELSE lib_override_library_id_hierarchy_reset_entries(
         [bm |-> lib_override_library_id_reset_do(w.bm, id_root).bm,
          processed |-> w.processed \cup {id_root},
          reset |-> Append(w.reset, id_root)],
         PointerSeq(w.bm, id_root))

lib_override_library_id_hierarchy_reset_entries(w, entries) ==
  IF entries = <<>> THEN w
  ELSE lib_override_library_id_hierarchy_reset_entries(
         IF ~lib_override_library_id_hierarchy_reset_skips(Head(entries).cb)
            /\ w.bm.override_library[Head(entries).to].has
         THEN lib_override_library_id_hierarchy_recursive_reset(w, Head(entries).to)
         ELSE w,
         Tail(entries))

\* The loop over Main that updates the overrides that need a reload.
RECURSIVE lib_override_library_id_hierarchy_reset_updates(_, _, _)
lib_override_library_id_hierarchy_reset_updates(w, ids, do_fail) ==
  IF ids = <<>> THEN w
  ELSE lib_override_library_id_hierarchy_reset_updates(
         IF ID_IS_OVERRIDE_LIBRARY_REAL(w.bm, Head(ids))
         THEN lib_override_library_id_reset_update(w, Head(ids), do_fail)
         ELSE w,
         Tail(ids), do_fail)

BKE_lib_override_library_id_hierarchy_reset(bm, id_root, do_fail) ==
  With(lib_override_library_id_hierarchy_recursive_reset(
         [bm |-> BKE_main_relations_create(bm), processed |-> {}, reset |-> <<>>],
         id_root), LAMBDA w :
    With(lib_override_library_id_hierarchy_reset_updates(
           [bm |-> BKE_main_relations_free(w.bm), updated |-> <<>>],
           MainOrder(w.bm), do_fail), LAMBDA u :
      [bm |-> u.bm, reset |-> w.reset, updated |-> u.updated]))

(***************************************************************************)
(* SpecReset: the reset of an override and of its hierarchy.  Library 1    *)
(* holds the objects R1, R2 and R3, R1 pointing to R2 and R2 to R3.  The   *)
(* file holds L1, an override of R1, L2, which is an override of R2, a     *)
(* template or an object without override data, and L3, an override of     *)
(* R3.  L1 points to L2 and L2 to L3; L3 points back to L1 as to its       *)
(* parent, and L1 may point to L3 by a second pointer.  The overrides      *)
(* hold properties for the number "a", for the pointer "b", for both or    *)
(* for none.  call.ret holds the IDs the call has reset, in order.         *)
(***************************************************************************)
MaxResetCalls == 2

ResetID == [R1 |-> 1, R2 |-> 2, R3 |-> 3, L1 |-> 4, L2 |-> 5, L3 |-> 6]
ResetR1 == ResetID.R1
ResetR2 == ResetID.R2
ResetR3 == ResetID.R3
ResetL1 == ResetID.L1
ResetL2 == ResetID.L2
ResetL3 == ResetID.L3

ResetProperties ==
  {<<>>, <<StoreProperty("a", 1)>>, <<StoreProperty("b", 1)>>,
   <<StoreProperty("a", 1), StoreProperty("b", 2)>>}

ResetMain(mid, diamond, l1_properties, l2_properties, l3_properties, l3_a) ==
  [AddID(AddID(AddID(AddID(AddID(AddID(EmptyMain, 1, "OB", "R"), 1, "OB", "S"),
                           1, "OB", "T"), NULL, "OB", "A"), NULL, "OB", "B"),
         NULL, "OB", "C")
     EXCEPT
       !.values = [@ EXCEPT ![ResetL3]["a"] = l3_a],
       !.links = {Link(ResetR1, ResetR2, IDWALK_CB_USER),
                  Link(ResetR2, ResetR3, IDWALK_CB_USER),
                  Link(ResetL1, ResetL2, IDWALK_CB_USER),
                  Link(ResetL2, ResetL3, IDWALK_CB_USER),
                  Link(ResetL3, ResetL1, IDWALK_CB_LOOPBACK)}
                 \cup (IF diamond THEN {Link(ResetL1, ResetL3, PoseCustom)} ELSE {}),
       !.us = [e \in IDs |-> IF e \in {ResetR1, ResetR2, ResetR3, ResetL2, ResetL3}
                             THEN 1 ELSE 0],
       !.override_library =
          [@ EXCEPT
             ![ResetL1] = [NoLink EXCEPT !.has = TRUE, !.reference = ResetR1,
                                         !.properties = l1_properties],
             ![ResetL2] = IF mid = "none" THEN NoLink
                          ELSE [NoLink EXCEPT
                                  !.has = TRUE,
                                  !.reference = IF mid = "override" THEN ResetR2 ELSE NULL,
                                  !.properties = l2_properties],
             ![ResetL3] = [NoLink EXCEPT !.has = TRUE, !.reference = ResetR3,
                                         !.properties = l3_properties]]]

InitReset ==
  /\ \E mid \in {"override", "template", "none"}, diamond \in BOOLEAN,
        l1_properties \in ResetProperties, l2_properties \in ResetProperties,
        l3_properties \in ResetProperties, l3_a \in 0..1 :
       /\ mid = "none" => l2_properties = <<>>
       /\ bmain = ResetMain(mid, diamond, l1_properties, l2_properties, l3_properties, l3_a)
  /\ bmain_old = bmain
  /\ call = NoCall

ResetCall(fn, args, reset, updated) ==
  [fn |-> fn, args |-> args, ret |-> reset, crashed |-> FALSE, seq |-> call.seq + 1,
   updated |-> updated]

ResetOne(id_root, do_fail) ==
  /\ call.seq < MaxResetCalls
  /\ id_root \in bmain.ids
  /\ \E r \in {BKE_lib_override_library_id_reset(bmain, id_root, do_fail)} :
       /\ bmain' = r.bm
       /\ call' = ResetCall("id_reset", <<id_root, do_fail>>,
                            IF ID_IS_OVERRIDE_LIBRARY_REAL(bmain, id_root)
                            THEN <<id_root>> ELSE <<>>,
                            r.updated)
  /\ bmain_old' = bmain

ResetHierarchy(id_root, do_fail) ==
  /\ call.seq < MaxResetCalls
  /\ id_root \in bmain.ids
  /\ \E r \in {BKE_lib_override_library_id_hierarchy_reset(bmain, id_root, do_fail)} :
       /\ bmain' = r.bm
       /\ call' = ResetCall("id_hierarchy_reset", <<id_root, do_fail>>, r.reset,
                            r.updated)
  /\ bmain_old' = bmain

NextReset ==
  \/ \E id_root \in {ResetL1, ResetL2, ResetL3}, do_fail \in BOOLEAN :
       ResetOne(id_root, do_fail)
  \/ \E id_root \in {ResetL1, ResetL2, ResetL3}, do_fail \in BOOLEAN :
       ResetHierarchy(id_root, do_fail)

SpecReset == InitReset /\ [][NextReset]_vars

\* The IDs a walk from the IDs of walked reaches by pointers that are no
\* loop-back pointers; it goes on from the real overrides only (real), or
\* from every ID with override data.
RECURSIVE ResetReached(_, _, _)
ResetReached(bm, walked, real) ==
  LET through == {e \in walked : IF real THEN ID_IS_OVERRIDE_LIBRARY_REAL(bm, e)
                                  ELSE bm.override_library[e].has}
      more == UNION {{p.to : p \in {p \in PointersOf(bm, e) : p.cb # IDWALK_CB_LOOPBACK}}
                       : e \in through}
  IN IF more \subseteq walked THEN walked
     ELSE ResetReached(bm, walked \cup more, real)

\* The real overrides a chain of IDs with override data leads to from root.
ResetOverridesByData(bm, id_root) ==
  {e \in ResetReached(bm, {id_root}, FALSE) : ID_IS_OVERRIDE_LIBRARY_REAL(bm, e)}

\* The real overrides a chain of real overrides leads to from root.
ResetOverridesByReal(bm, id_root) ==
  {e \in ResetReached(bm, {id_root}, TRUE) : ID_IS_OVERRIDE_LIBRARY_REAL(bm, e)}

ResetOnce(reset) == \A i, j \in DOMAIN reset : reset[i] = reset[j] => i = j

ResetSet(reset) == {reset[i] : i \in DOMAIN reset}

ResetLostProperty ==
  {e \in bmain_old.ids : Len(bmain.override_library[e].properties)
                           < Len(bmain_old.override_library[e].properties)}

\* C40: when BKE_lib_override_library_id_reset or
\* BKE_lib_override_library_id_hierarchy_reset has returned, no ID carries
\* IDOVERRIDE_LIBRARY_RUNTIME_TAG_NEEDS_RELOAD, and
\* BKE_lib_override_library_update was called once on every ID that lost a
\* property in the call and on no other ID.
C40_ResetReloadsWhatItChanged ==
  call.fn \in {"id_reset", "id_hierarchy_reset"} =>
    /\ \A e \in bmain.ids :
         IDOVERRIDE_LIBRARY_RUNTIME_TAG_NEEDS_RELOAD
           \notin bmain.override_library[e].runtime.tag
    /\ ResetSet(call.updated) = ResetLostProperty
    /\ ResetOnce(call.updated)

\* The hierarchy of L1 was reset: two overrides lost a property and were
\* updated, and an override that was reset kept all it had and was not.
C40_Witness ==
  /\ call.fn = "id_hierarchy_reset" /\ call.args[1] = ResetL1
  /\ Len(call.updated) >= 2
  /\ ResetSet(call.ret) \ ResetSet(call.updated) # {}
  /\ \E e \in ResetSet(call.ret) \ ResetSet(call.updated) :
       bmain_old.override_library[e].properties # <<>>

(***************************************************************************)
(* SpecClosure: lib_override_linked_group_tag with the pass of             *)
(* lib_override_hierarchy_dependencies_recursive_tag run call by call, on  *)
(* the registry of SpecGroup: O and M use each other when M uses O, and B  *)
(* is used by C and by O.  call.ret holds the state of the pass:           *)
(*   pc         "call" at the entry of the function for the ID arg,        *)
(*              "loop" in the loop over the entries of the ID of the top   *)
(*              frame, "return" when a call has returned value, "done"     *)
(*              when the first call has returned                           *)
(*   stack      the frames of the calls that have not returned: the ID     *)
(*              and its entries not yet looked at                          *)
(*   processed  the IDs whose entry BKE_main_relations_ID_remove has taken *)
(*              out of Main.relations                                      *)
(*   expanded   the IDs whose entries the pass has started to go through,  *)
(*              in order                                                   *)
(*   value      the value the last call returned                           *)
(***************************************************************************)
MaxStack == 9

lib_override_hierarchy_dependencies_processed_mutant(bm, processed, id) == FALSE

\* entry_vp == NULL: the ID has no entry in Main.relations, or none any more.
lib_override_hierarchy_dependencies_processed(bm, processed, id) ==
  id \in processed \/ PointersOf(bm, id) = {}

InitClosure ==
  /\ \E m_uses_o \in BOOLEAN, s_has_c \in BOOLEAN, with_overrides \in BOOLEAN,
        tagged \in {{}, {GraphC}, {GraphO}}, missing \in {{}, {GraphB}, {GraphM}} :
       bmain = GroupMain(m_uses_o, s_has_c, with_overrides, tagged, missing)
  /\ bmain_old = bmain
  /\ call = NoCall

ClosureState(pc, arg, stack, processed, expanded, value) ==
  [pc |-> pc, arg |-> arg, stack |-> stack, processed |-> processed,
   expanded |-> expanded, value |-> value]

\* lib_override_linked_group_tag up to its call of the pass.
ClosureBegin(id) ==
  /\ call.fn = "none"
  /\ id \in LinkedIDs(bmain)
  /\ bmain' = GroupBoundary(BKE_main_relations_create(bmain), id)
  /\ call' = [fn |-> "linked_group_tag", args |-> <<id>>, crashed |-> FALSE, seq |-> 1,
              ret |-> ClosureState("call", id, <<>>, {}, <<>>, FALSE)]
  /\ bmain_old' = bmain

\* The entry of the function: the look-up of the entry of the ID and its
\* removal.
ClosureEnter ==
  /\ call.fn = "linked_group_tag" /\ call.ret.pc = "call"
  /\ IF lib_override_hierarchy_dependencies_processed(bmain, call.ret.processed,
                                                      call.ret.arg)
     THEN call' = [call EXCEPT !.ret.pc = "return",
                               !.ret.value = LIB_TAG_DOIT \in bmain.tag[call.ret.arg]]
     ELSE /\ Len(call.ret.stack) < MaxStack
          /\ call' = [call EXCEPT
                        !.ret.pc = "loop",
                        !.ret.processed = @ \cup {call.ret.arg},
                        !.ret.expanded = Append(@, call.ret.arg),
                        !.ret.stack = Append(@, [id |-> call.ret.arg,
                                                 entries |-> PointerSeq(bmain, call.ret.arg)])]
  /\ UNCHANGED <<bmain, bmain_old>>

\* One turn of the loop over the entries, or its end and the return.
ClosureLoop ==
  /\ call.fn = "linked_group_tag" /\ call.ret.pc = "loop"
  /\ LET top == call.ret.stack[Len(call.ret.stack)]
     IN IF top.entries = <<>>
        THEN call' = [call EXCEPT !.ret.pc = "return",
                                  !.ret.stack = SubSeq(@, 1, Len(@) - 1),
                                  !.ret.arg = top.id,
                                  !.ret.value = LIB_TAG_DOIT \in bmain.tag[top.id]]
        ELSE call' = [call EXCEPT
                        !.ret.stack[Len(call.ret.stack)].entries = Tail(@),
                        !.ret.pc = IF Head(top.entries).cb # IDWALK_CB_LOOPBACK
                                      /\ bmain.lib[Head(top.entries).to] = bmain.lib[top.id]
                                   THEN "call" ELSE "loop",
                        !.ret.arg = Head(top.entries).to]
  /\ UNCHANGED <<bmain, bmain_old>>

\* A call has returned: its caller tags its ID when the value is true; after
\* the return of the first call lib_override_linked_group_tag frees
\* Main.relations.
ClosureReturn ==
  /\ call.fn = "linked_group_tag" /\ call.ret.pc = "return"
  /\ IF call.ret.stack = <<>>
     THEN /\ bmain' = BKE_main_relations_free(bmain)
          /\ call' = [call EXCEPT !.ret.pc = "done"]
     ELSE /\ bmain' = IF call.ret.value
                      THEN [bmain EXCEPT
                              !.tag[call.ret.stack[Len(call.ret.stack)].id] =
                                 @ \cup {LIB_TAG_DOIT}]
                      ELSE bmain
          /\ call' = [call EXCEPT !.ret.pc = "loop"]
  /\ UNCHANGED bmain_old

NextClosure ==
  \/ \E id \in {GraphC, GraphO, GraphB, GraphM} : ClosureBegin(id)
  \/ ClosureEnter
  \/ ClosureLoop
  \/ ClosureReturn

\* A call that has started goes on: nothing but the pass itself runs.
SpecClosure ==
  /\ InitClosure /\ [][NextClosure]_vars
  /\ WF_vars(ClosureEnter) /\ WF_vars(ClosureLoop) /\ WF_vars(ClosureReturn)

ClosureDone == call.fn = "linked_group_tag" /\ call.ret.pc = "done"

ClosureExpandedOnce ==
  call.fn = "linked_group_tag" =>
    \A i, j \in DOMAIN call.ret.expanded :
      call.ret.expanded[i] = call.ret.expanded[j] => i = j

\* C25: the pass over the dependencies comes to its end on every registry,
\* with IDs that use each other and IDs used by two IDs, and it goes through
\* the entries of an ID once at most.
C25_PassTerminates ==
  (call.fn = "linked_group_tag")
    ~> [](ClosureDone /\ ClosureExpandedOnce)

\* The pass from C has ended: it went through the entries of O and of M,
\* which use each other, and B is used by C and by O; the registry is the
\* one lib_override_linked_group_tag computes.
C25_Witness ==
  /\ ClosureDone /\ call.args = <<GraphC>>
  /\ bmain = lib_override_linked_group_tag(bmain_old, GraphC, LIB_TAG_DOIT, LIB_TAG_MISSING)
  /\ GraphO \in GroupDepends(bmain, GraphM) /\ GraphM \in GroupDepends(bmain, GraphO)
  /\ {GraphC, GraphO} \subseteq {e \in bmain.ids : GraphB \in GroupDepends(bmain, e)}
  /\ {GraphC, GraphO, GraphM} \subseteq {call.ret.expanded[i] : i \in DOMAIN call.ret.expanded}

(***************************************************************************)
(* SpecLink: BKE_lib_override_library_init on the registry of SpecStore,   *)
(* with the registry before each call kept in bmain_old.  The local IDs A, *)
(* B and L get and lose their override data; A may carry                   *)
(* LIB_TAG_OVERRIDE_LIBRARY_REFOK from an override it no longer has.  A    *)
(* call is made while every use count is below MaxUs.                      *)
(***************************************************************************)
MaxLinkCalls == 3

LinkID == [A |-> 1, B |-> 2, R |-> 3, T |-> 4, L |-> 5]
LinkA == LinkID.A
LinkR == LinkID.R
LinkT == LinkID.T

LinkMain(r_override, a_refok) ==
  [StoreMain(r_override) EXCEPT
     !.tag[LinkA] = IF a_refok THEN {LIB_TAG_OVERRIDE_LIBRARY_REFOK} ELSE {}]

InitLink ==
  /\ \E r_override \in BOOLEAN, a_refok \in BOOLEAN : bmain = LinkMain(r_override, a_refok)
  /\ bmain_old = bmain
  /\ call = NoCall

LinkMayCall ==
  /\ ~call.crashed
  /\ call.seq < MaxLinkCalls
  /\ \A e \in bmain.ids : bmain.us[e] < MaxUs

LinkCall(fn, args, ret, crashed) ==
  [fn |-> fn, args |-> args, ret |-> ret, crashed |-> crashed, seq |-> call.seq + 1]

\* init(local, reference).  On a local that has override data BLI_assert
\* fails: ub_crash is the build with assertions, which aborts; the other
\* build goes on.
LinkInit(local_id, reference_id, ub_crash) ==
  /\ LinkMayCall
  /\ local_id \in LocalIDs(bmain)
  /\ ub_crash => bmain.override_library[local_id].has
  /\ reference_id = NULL \/ reference_id \in LinkedIDs(bmain)
  /\ bmain' = IF ub_crash THEN bmain
              ELSE BKE_lib_override_library_init(bmain, local_id, reference_id)
  /\ call' = LinkCall("init", <<local_id, reference_id>>,
                      IF ub_crash THEN NULL ELSE local_id, ub_crash)
  /\ bmain_old' = bmain

LinkFree(id, do_id_user) ==
  /\ LinkMayCall
  /\ id \in LocalIDs(bmain)
  /\ bmain.override_library[id].has
  /\ bmain' = BKE_lib_override_library_free(bmain, id, do_id_user)
  /\ call' = LinkCall("free", <<id, do_id_user>>, NULL, FALSE)
  /\ bmain_old' = bmain

NextLink ==
  \/ \E local_id \in IDs, reference_id \in {NULL} \cup IDs, ub_crash \in BOOLEAN :
       LinkInit(local_id, reference_id, ub_crash)
  \/ \E id \in IDs, do_id_user \in BOOLEAN : LinkFree(id, do_id_user)

SpecLink == InitLink /\ [][NextLink]_vars

\* init has returned and its local ID had no override data when it was
\* called.
LinkInitialised ==
  /\ call.fn = "init" /\ ~call.crashed
  /\ ~bmain_old.override_library[call.args[1]].has

RECURSIVE LinkAncestors(_, _)
LinkAncestors(bm, id) ==
  IF id = NULL THEN {}
  ELSE {id} \cup (IF bm.override_library[id].has
                  THEN LinkAncestors(bm, bm.override_library[id].reference) ELSE {})

LinkPtrs(properties) == {properties[i].ptr : i \in DOMAIN properties}

MaxResyncCalls == 2

ResyncMain(m_uses_o, s_has_c, missing) ==
  [GraphMain(m_uses_o, s_has_c, FALSE, TRUE) EXCEPT
     !.tag = [e \in IDs |-> IF e \in missing THEN @[e] \cup {LIB_TAG_MISSING} ELSE @[e]]]

InitResync ==
  /\ \E m_uses_o \in BOOLEAN, s_has_c \in BOOLEAN, missing \in {{}, {GraphM}} :
       bmain = ResyncMain(m_uses_o, s_has_c, missing)
  /\ bmain_old = bmain
  /\ call = NoCall

\* The user duplicates the real override id: BKE_id_copy gives the copy the
\* pointers and the override data of id, and every collection that holds id
\* gets the copy; with first, the two IDs then exchange their names.
ResyncDuplicate(id, first) ==
  /\ call.fn = "none"
  /\ id \in LocalIDs(bmain)
  /\ bmain.code[id] = "OB"
  /\ ID_IS_OVERRIDE_LIBRARY_REAL(bmain, id)
  /\ bmain.override_library[id].reference = GraphO
  /\ \E c \in {BKE_id_copy(bmain, id)} :
       \E bm \in {BKE_lib_override_library_copy(c.bm, c.ret, id, TRUE)} :
         bmain' = [bm EXCEPT
                     !.links = @ \cup {Link(l.from, c.ret, l.cb) :
                                         l \in {l \in bm.links :
                                                  l.to = id /\ bm.code[l.from] = "GR"}},
                     !.name[id] = IF first THEN bm.name[c.ret] ELSE @,
                     !.name[c.ret] = IF first THEN bm.name[id] ELSE @]
  /\ call' = [call EXCEPT !.fn = "duplicate", !.args = <<id, first>>]
  /\ bmain_old' = bmain

ResyncCall(id_root) ==
  /\ ~call.crashed
  /\ call.seq < MaxResyncCalls
  /\ id_root \in LocalIDs(bmain)
  /\ ID_IS_OVERRIDE_LIBRARY_REAL(bmain, id_root)
  /\ bmain.code[id_root] \in {"GR", "OB"}
  /\ GraphRoom(lib_override_library_resync_tag(bmain, id_root))
  /\ \E fail_at \in GraphFailPoints(lib_override_library_resync_tag(bmain, id_root)),
        ub_crash \in BOOLEAN :
       \E r \in {BKE_lib_override_library_resync(bmain, GraphS, id_root, fail_at,
                                                 ub_crash)} :
          /\ bmain' = r.bm
          /\ call' = GraphCall("resync", <<id_root>>,
                               [success |-> r.ret, mid |-> r.mid, map |-> r.map,
                                copied |-> r.copied,
                                prev |-> IF call.fn = "resync" THEN call.ret.success
                                         ELSE TRUE],
                               r.crashed)
  /\ bmain_old' = bmain

NextResync ==
  \/ \E id \in IDs, first \in BOOLEAN : ResyncDuplicate(id, first)
  \/ \E id_root \in IDs : ResyncCall(id_root)

SpecResync == InitResync /\ [][NextResync]_vars

\* The local overrides of the reference that the two taggers of the last
\* resync have tagged LIB_TAG_DOIT.
ResyncOlds(reference) ==
  {e \in LocalIDs(bmain_old) :
     /\ LIB_TAG_DOIT \in lib_override_library_resync_tag(bmain_old, call.args[1]).tag[e]
     /\ ID_IS_OVERRIDE_LIBRARY_REAL(bmain_old, e)
     /\ bmain_old.override_library[e].reference = reference}

\* e comes before f in the order of Main: the local IDs of a type are
\* sorted by name.
ResyncBefore(e, f) ==
  \/ NameRank(bmain_old.name[e][1]) < NameRank(bmain_old.name[f][1])
  \/ /\ bmain_old.name[e][1] = bmain_old.name[f][1]
     /\ bmain_old.name[e][2] < bmain_old.name[f][2]

\* C34: in a resync, the mapping holds for every reference that has tagged
\* local overrides the one that comes first in the order of Main; when the
\* resync succeeds and the reference has got a new override, that old
\* override, and no other override of the reference, is gone.
C34_FirstOverrideWins ==
  call.fn = "resync" =>
    \A reference \in LinkedIDs(bmain_old) :
      ResyncOlds(reference) # {}
      => /\ call.ret.map[reference] \in ResyncOlds(reference)
         /\ \A e \in ResyncOlds(reference) \ {call.ret.map[reference]} :
              ResyncBefore(call.ret.map[reference], e)
         /\ (GraphSucceeded({"resync"}) /\ call.ret.mid.newid[reference] # NULL)
            => ResyncOlds(reference) \ bmain.ids = {call.ret.map[reference]}

\* A resync has succeeded on a hierarchy with two overrides of the object
\* O, the duplicate named before its original: the duplicate is gone and
\* the original is left.
C34_Witness ==
  /\ GraphSucceeded({"resync"})
  /\ Cardinality(ResyncOlds(GraphO)) = 2
  /\ call.ret.mid.newid[GraphO] # NULL
  /\ \E e \in ResyncOlds(GraphO) :
       /\ e # call.ret.map[GraphO]
       /\ e < call.ret.map[GraphO]
       /\ e \in bmain.ids
       /\ call.ret.map[GraphO] \notin bmain.ids

\* The IDs that were in Main before the last call are in Main with their
\* names and their pointers, and carry every tag the two taggers of the
\* resync gave them.
ResyncUntouched ==
  /\ \A e \in bmain_old.ids : e \in bmain.ids /\ bmain.name[e] = bmain_old.name[e]
  /\ {l \in bmain.links : l.from \in bmain_old.ids} = bmain_old.links
  /\ \A e \in bmain_old.ids :
       lib_override_library_resync_tag(bmain_old, call.args[1]).tag[e]
         \cap {LIB_TAG_DOIT, LIB_TAG_MISSING} \subseteq bmain.tag[e]

\* C35: when BKE_lib_override_library_create_from_tag fails in a resync, the
\* resync returns false, no ID that was in Main before the call was
\* renamed, remapped or deleted, and the tags of the two taggers are still
\* set.
C35_FailedResyncReturnsFalse ==
  (call.fn = "resync" /\ ~call.ret.copied)
  => /\ ~call.crashed
     /\ ~call.ret.success
     /\ ResyncUntouched

\* The local override group of the root of the last resync, before the
\* call: the IDs the walk of the local group goes into, with their shape
\* keys.
ResyncGroup ==
  With(GroupWalked(bmain_old, call.args[1], {call.args[1]}), LAMBDA walked :
    walked \cup {bmain_old.key[e] : e \in {e \in walked : bmain_old.key[e] # NULL}})

\* C36: after a successful resync, every local ID that was in Main before
\* the call and is not in the local override group of the root is still in
\* Main.
C36_ResyncDeletesInGroupOnly ==
  GraphSucceeded({"resync"}) =>
    \A e \in LocalIDs(bmain_old) \ ResyncGroup : e \in bmain.ids

(***************************************************************************)
(* SpecRollback: BKE_lib_override_library_create_from_tag on a mesh with a *)
(* shape key.  Library 1 holds the mesh M, its shape key K and the         *)
(* material T of M; the file holds the object A, which uses M.  Materials  *)
(* come after meshes in Main, so that the copy of T may fail when M has    *)
(* its override already.  Two things vary: whether M has the shape key,    *)
(* and whether A uses T as well.                                           *)
(***************************************************************************)
MaxRollbackCalls == 2

RollbackID == [M |-> 1, K |-> 2, T |-> 3, A |-> 4]
RollbackM == RollbackID.M
RollbackK == RollbackID.K
RollbackT == RollbackID.T
RollbackA == RollbackID.A

RollbackMain(m_has_key, a_uses_t) ==
  LET bm == AddID(AddID(AddID(AddID(EmptyMain,
              1, "ME", "M"), 1, "KE", "K"), 1, "MA", "T"), NULL, "OB", "A")
  IN [bm EXCEPT
        !.key[RollbackM] = IF m_has_key THEN RollbackK ELSE NULL,
        !.us = [e \in IDs |-> IF e \in bm.ids THEN 1 ELSE 0],
        !.links =
           {Link(RollbackM, RollbackT, IDWALK_CB_USER),
            Link(RollbackK, RollbackM, IDWALK_CB_LOOPBACK),
            Link(RollbackA, RollbackM, IDWALK_CB_USER)}
           \cup (IF a_uses_t THEN {Link(RollbackA, RollbackT, IDWALK_CB_USER)} ELSE {})]

InitRollback ==
  /\ \E m_has_key \in BOOLEAN, a_uses_t \in BOOLEAN :
       bmain = RollbackMain(m_has_key, a_uses_t)
  /\ bmain_old = bmain
  /\ call = NoCall

\* A call of BKE_lib_override_library_create_from_tag by a caller that
\* cleared the tags and the newid pointers, tagged some linked IDs and some
\* local IDs to be remapped, and that cleans up after a successful call as
\* BKE_lib_override_library_create does.
RollbackCreateFromTag(tagged) ==
  /\ ~call.crashed
  /\ call.seq < MaxRollbackCalls
  /\ tagged \subseteq bmain.ids
  /\ GraphRoom(GraphCallerTags(bmain, tagged))
  /\ \E fail_at \in GraphFailPoints(GraphCallerTags(bmain, tagged)), ub_crash \in BOOLEAN :
       \E r \in {BKE_lib_override_library_create_from_tag(
                   GraphCallerTags(bmain, tagged), fail_at, ub_crash)} :
          /\ bmain' = IF r.ret THEN lib_override_library_create_cleanup(r.bm) ELSE r.bm
          /\ call' = GraphCall("create_from_tag", <<tagged>>,
                               [success |-> r.ret, mid |-> r.bm, copied |-> r.copied],
                               r.crashed)
  /\ bmain_old' = GraphCallerTags(bmain, tagged)

RollbackTagSets == SUBSET {RollbackM, RollbackT, RollbackA} \ {{}}

NextRollback == \E tagged \in RollbackTagSets : RollbackCreateFromTag(tagged)

SpecRollback == InitRollback /\ [][NextRollback]_vars

\* C37: when BKE_lib_override_library_create_from_tag has failed and its
\* cleanup loop has run to its end, every newid pointer that is set, the
\* ones of the shape keys of the references included, points to an ID that
\* is in Main.
C37_NoCounterpartOfDeleted ==
  (call.fn \in GraphTagCalls /\ ~call.ret.success /\ ~call.crashed) =>
    \A e \in call.ret.mid.ids :
      call.ret.mid.newid[e] # NULL => call.ret.mid.newid[e] \in call.ret.mid.ids
====
